---- MODULE Spec2Model ----
(***************************************************************************)
(* A model of the bard router, handler compiler and request dispatch.      *)
(*                                                                         *)
(* Paths are sequences of one-character strings, so that splitting and     *)
(* placeholder recognition are computed the way the code computes them.    *)
(* A trie node is named by the sequence of edges leading to it from the    *)
(* root: a static edge is the literal segment, the parameter edge is the   *)
(* empty sequence (no literal segment is ever empty).                      *)
(***************************************************************************)
EXTENDS Integers, Sequences, FiniteSets, TLC

VARIABLES router, last, app, reqs, nobj

rvars == <<router, last>>
qvars == <<app, reqs, nobj>>
vars == <<router, last, app, reqs, nobj>>

\* ------------------------------------------------------------------ bounds

MaxRouteSpecs == 2

\* --------------------------------------------------------------- utilities

SeqMin(S) == CHOOSE x \in S : \A y \in S : x <= y
SeqMax(S) == CHOOSE x \in S : \A y \in S : x >= y

Put(f, k, v) == [x \in (DOMAIN f) \cup {k} |-> IF x = k THEN v ELSE f[x]]

NoErr == "none"

\* ------------------------------------------------------------------- paths

Slash == "/"

\* str.strip("/")
Strip(p) ==
    LET idx == {i \in 1..Len(p) : p[i] # Slash}
    IN IF idx = {} THEN <<>> ELSE SubSeq(p, SeqMin(idx), SeqMax(idx))

\* str.split("/"): every piece, the empty ones included
RECURSIVE SplitSlash(_)
SplitSlash(p) ==
    LET idx == {i \in 1..Len(p) : p[i] = Slash}
    IN IF idx = {} THEN <<p>>
       ELSE LET i == SeqMin(idx)
            IN <<SubSeq(p, 1, i - 1)>> \o SplitSlash(SubSeq(p, i + 1, Len(p)))

NonEmptySeg(s) == s # <<>>

\* a split that strips the ends but keeps the empty pieces in between
_split_keeping_empty(path) ==
    LET trimmed == Strip(path)
    IN IF trimmed = <<>> THEN <<>>
       ELSE SplitSlash(trimmed)

\* router.py 218-222
_split_path(path) ==
    LET trimmed == Strip(path)
    IN IF trimmed = <<>> THEN <<>>
       ELSE SelectSeq(SplitSlash(trimmed), NonEmptySeg)

_is_param(segment) ==
    /\ Len(segment) > 2
    /\ segment[1] = "{"
    /\ segment[Len(segment)] = "}"

StartsWithSlash(path) == Len(path) > 0 /\ path[1] = Slash

\* the edge of the parameter child
ParamEdge == <<>>

\* ----------------------------------------------------------------- methods

\* str.upper() on the method strings of the model
Upper(m) ==
    IF m = "get" THEN "GET" ELSE IF m = "websocket" THEN "WEBSOCKET" ELSE m

\* ------------------------------------------------- handlers and providers

\* A declared parameter.  kind: "request" (the ambient object), "depends"
\* (explicit Depends(provider)), "type" (no extractor metadata: looked up by
\* declared type `key`), "path" (Path extractor), "unannotated".
\* type is the declared type as the sequence of its union members, and
\* optional what is_optional_type says of it.
Param(name, kind, key, provider, use_cache, has_default, optional, data) ==
    [name |-> name, kind |-> kind, key |-> key, provider |-> provider,
     use_cache |-> use_cache, has_default |-> has_default,
     optional |-> optional, data |-> data, pkey |-> <<>>,
     type |-> IF optional THEN <<key, "None">> ELSE <<key>>]

\* utils.py 11-20
is_optional_type(annotation) ==
    \/ annotation = <<"None">>
    \/ Len(annotation) = 2 /\ \E i \in 1..2 : annotation[i] = "None"

TypeParam(name, key)    == Param(name, "type", key, "-", TRUE, FALSE, FALSE, FALSE)
DefaultParam(name, key) == Param(name, "type", key, "-", TRUE, TRUE, FALSE, FALSE)
OptParam(name, key)     == Param(name, "type", key, "-", TRUE, FALSE, TRUE, FALSE)
DataParam(name, key)    == Param(name, "type", key, "-", TRUE, FALSE, FALSE, TRUE)
DependsParam(name, provider, use_cache) ==
    Param(name, "depends", "-", provider, use_cache, FALSE, FALSE, FALSE)
\* Annotated[int, Path(pkey)]: pkey is the placeholder name looked up
PathParam(name, pkey) ==
    [Param(name, "path", "-", "-", TRUE, FALSE, FALSE, FALSE) EXCEPT !.pkey = pkey]

\* Annotated[type, Query(pkey)] and the like: kind names the extractor
ExtractParam(name, kind, pkey, has_default, type) ==
    [Param(name, kind, "-", "-", TRUE, has_default, is_optional_type(type), FALSE)
        EXCEPT !.pkey = pkey, !.type = type]

\* one handler parameter per extractor, all of one declared type; the Path
\* extractor reads a key that the route "/r/{x}" does not have
ExtractParams(has_default, type) ==
    <<ExtractParam("qv", "query", <<"q">>, has_default, type),
      ExtractParam("hv", "header", <<"h">>, has_default, type),
      ExtractParam("sv", "state", <<"s">>, has_default, type),
      ExtractParam("fv", "form", <<"f">>, has_default, type),
      ExtractParam("uv", "file", <<"u">>, has_default, type),
      ExtractParam("jv", "json", <<>>, has_default, type),
      ExtractParam("yv", "path", <<"y">>, has_default, type)>>

\* handler.py 272-274: a parameter `name: T1 | ... | None` without extractor;
\* the key looked up is the other member when is_optional_type recognises
\* the union, else the union itself, which is a request-data type
UnionParam(name, type) ==
    [Param(name, "type",
           IF is_optional_type(type) THEN (CHOOSE k \in {type[i] : i \in 1..Len(type)} : k # "None")
           ELSE "Union",
           "-", TRUE, FALSE, is_optional_type(type), ~is_optional_type(type))
        EXCEPT !.type = type]

\* The signatures of the functions of the model (handlers h*, providers p*).
Signature(fn) ==
    CASE fn = "h0"    -> <<>>
      [] fn = "hx"    -> <<PathParam("x", <<"x">>)>>
      [] fn = "hA"    -> <<TypeParam("a", "A")>>
      [] fn = "hB"    -> <<TypeParam("b", "B")>>
      [] fn = "hBA"   -> <<TypeParam("b", "B"), TypeParam("a", "A")>>
      [] fn = "hAB"   -> <<TypeParam("a", "A"), TypeParam("b", "B")>>
      [] fn = "hint"  -> <<DataParam("n", "int")>>
      [] fn = "hRR"   -> <<DependsParam("r1", "pR", FALSE), DependsParam("r2", "pR", FALSE)>>
      [] fn = "hMix"  -> <<DependsParam("d1", "pA", TRUE), DependsParam("d2", "pA", FALSE),
                           DependsParam("d3", "pA", TRUE)>>
      [] fn = "hAx"   -> <<TypeParam("a", "A"), PathParam("x", <<"x">>)>>
      [] fn = "hxA"   -> <<PathParam("x", <<"x">>), TypeParam("a", "A")>>
      [] fn = "hBx"   -> <<TypeParam("b", "B"), PathParam("x", <<"x">>)>>
      [] fn = "hReq"  -> ExtractParams(FALSE, <<"int">>)
      [] fn = "hDef"  -> ExtractParams(TRUE, <<"int">>)
      [] fn = "hOpt"  -> ExtractParams(FALSE, <<"int", "None">>)
      [] fn = "hDefOpt" -> ExtractParams(TRUE, <<"int", "None">>)
      [] fn = "hU3"   -> ExtractParams(FALSE, <<"int", "str", "None">>)
      [] fn = "hW"    -> <<Param("ws", "request", "-", "-", TRUE, FALSE, FALSE, FALSE),
                           TypeParam("a", "A")>>
      [] fn = "hDA"   -> <<DefaultParam("a", "A")>>
      [] fn = "hOA"   -> <<OptParam("a", "A")>>
      [] fn = "hOS"   -> <<UnionParam("s", <<"S", "None">>)>>
      [] fn = "hU3S"  -> <<UnionParam("s", <<"S", "T", "None">>)>>
      [] fn = "hS"    -> <<TypeParam("s", "S")>>
      [] fn = "pS"    -> <<TypeParam("s", "S")>>
      [] fn = "pAc"   -> <<TypeParam("b", "B")>>
      [] fn = "pBc"   -> <<TypeParam("a", "A")>>
      [] fn = "pBd"   -> <<DefaultParam("a", "A")>>
      [] fn = "pA"    -> <<>>
      [] fn = "pB"    -> <<TypeParam("a", "A")>>
      [] fn = "pR"    -> <<>>
      [] OTHER        -> <<>>

\* the factory registered for each dependency key
ProviderOf(key) == IF key = "A" THEN "pA" ELSE "pB"

DepKeys == {"A", "B"}

\* ------------------------------------------------------- handler compiler

NoCompiled == [fn |-> "-", resolvers |-> <<>>]

Resolver(name, kind, key, use_cache, cp) ==
    [name |-> name, kind |-> kind, key |-> key, use_cache |-> use_cache, cp |-> cp,
     pkey |-> <<>>, has_default |-> FALSE, optional |-> FALSE]

NoKey == <<"-", "-">>

CompileOut(err, compiled, cache) == [err |-> err, compiled |-> compiled, cache |-> cache]

ParamOut(err, res, cache) == [err |-> err, res |-> res, cache |-> cache]

NoResolver(name) == Resolver(name, "-", NoKey, FALSE, NoCompiled)

RECURSIVE compile_handler(_, _, _)
RECURSIVE CompileParams(_, _, _, _, _)
RECURSIVE _compile_param(_, _, _)
RECURSIVE _compile_dependency(_, _, _, _, _, _)

\* handler.py 321-341: c is what compiling the provider gave; the provider is
\* cached and the resolver closes over the compiled provider
DependencyFrom(name, provider, cache_key, use_cache, c) ==
    IF c.err # NoErr THEN ParamOut(c.err, NoResolver(name), c.cache)
    ELSE ParamOut(NoErr, Resolver(name, "dep", cache_key, use_cache, c.compiled),
                  Put(c.cache, provider, c.compiled))

\* handler.py 306-341: the compiled provider comes from the cache when it is
\* there, and is compiled (and cached) otherwise
_compile_dependency(name, provider, cache_key, use_cache, providers, cache) ==
    IF provider \in DOMAIN cache
    THEN ParamOut(NoErr, Resolver(name, "dep", cache_key, use_cache, cache[provider]), cache)
    ELSE DependencyFrom(name, provider, cache_key, use_cache,
                        compile_handler(provider, providers, cache))

\* handler.py 264-303
_compile_type_dependency(p, providers, cache) ==
    IF p.key \notin DOMAIN providers
    THEN IF p.has_default
         THEN ParamOut(NoErr, Resolver(p.name, "default", NoKey, FALSE, NoCompiled), cache)
         ELSE IF p.optional
         THEN ParamOut(NoErr, Resolver(p.name, "none", NoKey, FALSE, NoCompiled), cache)
         ELSE IF p.data
         THEN ParamOut("TypeError", NoResolver(p.name), cache)
         ELSE ParamOut("MissingProviderError", NoResolver(p.name), cache)
    ELSE _compile_dependency(p.name, providers[p.key].provider, <<"type", p.key>>,
                             providers[p.key].use_cache, providers, cache)

\* handler.py 96-261
_compile_param(p, providers, cache) ==
    CASE p.kind = "unannotated" -> ParamOut("TypeError", NoResolver(p.name), cache)
      [] p.kind = "request" ->
            ParamOut(NoErr, Resolver(p.name, "request", NoKey, FALSE, NoCompiled), cache)
      [] p.kind = "depends" ->
            _compile_dependency(p.name, p.provider, <<"depends", p.provider>>,
                                p.use_cache, providers, cache)
      [] p.kind = "type" -> _compile_type_dependency(p, providers, cache)
      [] OTHER ->
            ParamOut(NoErr,
                     [Resolver(p.name, p.kind, NoKey, FALSE, NoCompiled)
                        EXCEPT !.pkey = p.pkey, !.has_default = p.has_default,
                               !.optional = p.optional],
                     cache)

\* handler.py 59-70: r is what compiling parameter i gave; an error ends the
\* loop, a resolver is appended and the loop goes on
ParamsAfter(params, i, acc, providers, r) ==
    IF r.err # NoErr THEN [err |-> r.err, resolvers |-> acc, cache |-> r.cache]
    ELSE CompileParams(params, i + 1, Append(acc, r.res), providers, r.cache)

\* the loop of compile_handler over the parameters, in declaration order
CompileParams(params, i, acc, providers, cache) ==
    IF i > Len(params) THEN [err |-> NoErr, resolvers |-> acc, cache |-> cache]
    ELSE ParamsAfter(params, i, acc, providers, _compile_param(params[i], providers, cache))

\* handler.py 72
HandlerFrom(fn, r) ==
    IF r.err # NoErr THEN CompileOut(r.err, NoCompiled, r.cache)
    ELSE CompileOut(NoErr, [fn |-> fn, resolvers |-> r.resolvers], r.cache)

\* handler.py 48-72
compile_handler(fn, providers, cache) ==
    HandlerFrom(fn, CompileParams(Signature(fn), 1, <<>>, providers, cache))

\* router.py 214
CachedFrom(handler, c) ==
    IF c.err # NoErr THEN c
    ELSE CompileOut(NoErr, c.compiled, Put(c.cache, handler, c.compiled))

\* router.py 196-215
_compile_handler_cached(R, handler) ==
    IF handler \in DOMAIN R.compiled_cache
    THEN CompileOut(NoErr, R.compiled_cache[handler], R.compiled_cache)
    ELSE CachedFrom(handler, compile_handler(handler, R.providers, R.compiled_cache))

\* ------------------------------------------------------------------ router

NoRouted == [compiled |-> NoCompiled, middlewares |-> <<"-", "-">>, is_websocket |-> FALSE,
             present |-> FALSE]

\* router.py 41-48
_RoutedHandler(compiled, middlewares, is_websocket) ==
    [compiled |-> compiled, middlewares |-> middlewares, is_websocket |-> is_websocket,
     present |-> TRUE]

\* router.py 51-61.  handlers, routed, param_names and middlewares are the
\* per-node dictionaries, keyed here by <<node, method>>.  A middleware list
\* is held by reference: <<"http", id>> is the _http_middlewares list object
\* of router id, which later add_middleware calls extend in place; lists
\* holds the list objects of other routers that routes of this one refer to.
\* provider_order is the insertion order of the providers dictionary.
NewRouter(id) ==
    [id |-> id,
     nodes |-> {<<>>},
     handlers |-> <<>>,
     routed |-> <<>>,
     param_names |-> <<>>,
     middlewares |-> <<>>,
     routes |-> <<>>,
     compiled_cache |-> <<>>,
     providers |-> <<>>,
     route_specs |-> <<>>,
     compiled_once |-> FALSE,
     http_middlewares |-> <<>>,
     ws_middlewares |-> <<>>,
     provider_order |-> <<>>,
     lists |-> <<>>]

OpOut(R, err) == [R |-> R, err |-> err]

\* a registry in which a later registration replaces the earlier one
provide_replacing(R, key, provider, use_cache) ==
    OpOut([R EXCEPT !.providers =
              Put(@, key, [provider |-> provider, use_cache |-> use_cache]),
                    !.provider_order = IF key \in DOMAIN R.providers THEN @ ELSE Append(@, key)],
          NoErr)

\* di.py 34-44 through router.py 63-66
provide(R, key, provider, use_cache) ==
    IF key \in DOMAIN R.providers THEN OpOut(R, "ValueError")
    ELSE OpOut([R EXCEPT !.providers =
                    Put(@, key, [provider |-> provider, use_cache |-> use_cache]),
                         !.provider_order = Append(@, key)],
               NoErr)

\* router.py 105-115: the edge taken for one segment of a registered path
EdgeOf(segment) == IF _is_param(segment) THEN ParamEdge ELSE segment

RouteNode(path) ==
    LET segs == _split_path(path)
    IN [i \in 1..Len(segs) |-> EdgeOf(segs[i])]

\* a registration that records the first placeholder only
RouteParamNamesFirst(path) ==
    LET segs == _split_path(path)
        ps == SelectSeq(segs, _is_param)
    IN [i \in 1..(IF Len(ps) > 1 THEN 1 ELSE Len(ps)) |-> SubSeq(ps[i], 2, Len(ps[i]) - 1)]

\* router.py 106-110: the placeholder names along the path, in order
RouteParamNames(path) ==
    LET segs == _split_path(path)
        ps == SelectSeq(segs, _is_param)
    IN [i \in 1..Len(ps) |-> SubSeq(ps[i], 2, Len(ps[i]) - 1)]

Prefixes(node) == {SubSeq(node, 1, k) : k \in 0..Len(node)}

\* a registration that binds the names to the node: every method at the
\* node gets the names of the route registered last
RegisterOnePerNode(R, k, names, handler, compiled, mws) ==
    [R EXCEPT !.handlers = Put(@, k, handler),
              !.param_names = [x \in DOMAIN @ \cup {k} |->
                                  IF x[1] = k[1] THEN names ELSE @[x]],
              !.middlewares = Put(@, k, mws),
              !.routes = Append(@, k),
              !.routed = IF compiled = NoCompiled THEN @
                         ELSE Put(@, k, _RoutedHandler(compiled, mws, k[2] = "WEBSOCKET"))]

\* a registration that records the handler without its dispatchable unit
RegisterOneUnrouted(R, k, names, handler, compiled, mws) ==
    [R EXCEPT !.handlers = Put(@, k, handler),
              !.param_names = Put(@, k, names),
              !.middlewares = Put(@, k, mws),
              !.routes = Append(@, k)]

\* router.py 136-146: one method recorded at the node
RegisterOne(R, k, names, handler, compiled, mws) ==
    [R EXCEPT !.handlers = Put(@, k, handler),
              !.param_names = Put(@, k, names),
              !.middlewares = Put(@, k, mws),
              !.routes = Append(@, k),
              !.routed = IF compiled = NoCompiled THEN @
                         ELSE Put(@, k, _RoutedHandler(compiled, mws, k[2] = "WEBSOCKET"))]

\* a registration loop without the duplicate check: the last handler wins
RECURSIVE RegisterOverwriting(_, _, _, _, _, _, _, _)
RegisterOverwriting(R, node, names, handler, methods, i, compiled, mws) ==
    IF i > Len(methods) THEN OpOut(R, NoErr)
    ELSE RegisterOverwriting(RegisterOne(R, <<node, Upper(methods[i])>>, names, handler,
                                         compiled, mws),
                             node, names, handler, methods, i + 1, compiled, mws)

\* router.py 132-146: the loop over the methods, stopped by the first
\* method already registered at the node
RECURSIVE RegisterMethods(_, _, _, _, _, _, _, _)
RegisterMethods(R, node, names, handler, methods, i, compiled, mws) ==
    IF i > Len(methods) THEN OpOut(R, NoErr)
    ELSE IF <<node, Upper(methods[i])>> \in DOMAIN R.handlers THEN OpOut(R, "ValueError")
    ELSE RegisterMethods(RegisterOne(R, <<node, Upper(methods[i])>>, names, handler,
                                     compiled, mws),
                         node, names, handler, methods, i + 1, compiled, mws)

\* an add_route that re-raises the missing-provider error before finalization too
NeverDeferred(err, compiled_once) == err # NoErr

\* an add_route that keeps deferring the missing-provider error after finalization
AlwaysDeferred(err, compiled_once) == err # NoErr /\ err # "MissingProviderError"

\* router.py 126-131: whether the error of compiling the handler leaves
\* add_route (MissingProviderError is swallowed until compile() was called)
CompileErrorRaised(err, compiled_once) ==
    err # NoErr /\ (err # "MissingProviderError" \/ compiled_once)

\* router.py 120-121: middlewares=None takes the router's own list object
DefaultMiddlewares(R, methods, mws) ==
    IF mws # <<"-", "-">> THEN mws
    ELSE IF \E i \in 1..Len(methods) : Upper(methods[i]) = "WEBSOCKET"
         THEN <<"ws", R.id>> ELSE <<"http", R.id>>

\* router.py 105-124: the nodes along the path exist and the route spec is
\* retained before the handler is compiled
WithNodesAndSpec(R, path, handler, methods, middlewares) ==
    [R EXCEPT !.nodes = @ \cup Prefixes(RouteNode(path)),
              !.route_specs = Append(@, [path |-> path, handler |-> handler,
                                         methods |-> methods,
                                         middlewares |-> middlewares])]

\* router.py 125-146: c is what compiling the handler gave
AddRouteCompiled(R, path, handler, methods, middlewares, c) ==
    IF CompileErrorRaised(c.err, R.compiled_once)
    THEN OpOut([R EXCEPT !.compiled_cache = c.cache], c.err)
    ELSE RegisterMethods([R EXCEPT !.compiled_cache = c.cache], RouteNode(path),
                         RouteParamNames(path), handler, methods, 1,
                         IF c.err = NoErr THEN c.compiled ELSE NoCompiled, middlewares)

\* router.py 116-146
AddRouteFrom(R1, path, handler, methods, middlewares) ==
    AddRouteCompiled(R1, path, handler, methods, middlewares,
                     _compile_handler_cached(R1, handler))

\* router.py 95-146.  mws = <<"-", "-">> stands for middlewares=None.
add_route(R, path, handler, methods, mws) ==
    IF ~StartsWithSlash(path) THEN OpOut(R, "ValueError")
    ELSE AddRouteFrom(WithNodesAndSpec(R, path, handler, methods,
                                       DefaultMiddlewares(R, methods, mws)),
                      path, handler, methods, DefaultMiddlewares(R, methods, mws))

RECURSIVE CompileRoutes(_, _)

\* router.py 167-174: c is what compiling the handler of route k gave
CompileRouteFrom(R, i, k, c) ==
    IF c.err # NoErr THEN OpOut([R EXCEPT !.compiled_cache = c.cache], c.err)
    ELSE CompileRoutes(
            [R EXCEPT !.compiled_cache = c.cache,
                      !.routed = Put(@, k, _RoutedHandler(c.compiled,
                                                          IF k \in DOMAIN R.middlewares
                                                          THEN R.middlewares[k]
                                                          ELSE <<"-", "-">>,
                                                          k[2] = "WEBSOCKET"))],
            i + 1)

\* router.py 163-174: the loop over the recorded routes
CompileRoutes(R, i) ==
    IF i > Len(R.routes) THEN OpOut(R, NoErr)
    ELSE CompileRouteFrom(R, i, R.routes[i],
                          _compile_handler_cached(R, R.handlers[R.routes[i]]))

compile(R) == CompileRoutes([R EXCEPT !.compiled_once = TRUE], 1)

\* a lookup that tries the parameter child before the literal children
RECURSIVE WalkParamFirst(_, _, _, _, _)
WalkParamFirst(R, segs, i, node, values) ==
    IF i > Len(segs) THEN [found |-> TRUE, node |-> node, values |-> values]
    ELSE IF Append(node, ParamEdge) \in R.nodes
         THEN WalkParamFirst(R, segs, i + 1, Append(node, ParamEdge), Append(values, segs[i]))
         ELSE IF Append(node, segs[i]) \notin R.nodes
              THEN [found |-> FALSE, node |-> node, values |-> values]
              ELSE WalkParamFirst(R, segs, i + 1, Append(node, segs[i]), values)

\* router.py 176-186: the walk down the trie; "miss" when no child fits
RECURSIVE Walk(_, _, _, _, _)
Walk(R, segs, i, node, values) ==
    IF i > Len(segs) THEN [found |-> TRUE, node |-> node, values |-> values]
    ELSE IF Append(node, segs[i]) \in R.nodes
         THEN Walk(R, segs, i + 1, Append(node, segs[i]), values)
         ELSE IF Append(node, ParamEdge) \notin R.nodes
              THEN [found |-> FALSE, node |-> node, values |-> values]
              ELSE Walk(R, segs, i + 1, Append(node, ParamEdge), Append(values, segs[i]))

\* dict(zip(param_names, param_values))
ZipDict(names, values) ==
    LET n == IF Len(names) < Len(values) THEN Len(names) ELSE Len(values)
    IN [k \in {names[i] : i \in 1..n} |->
            values[SeqMax({i \in 1..n : names[i] = k})]]

MatchOut(routed, params) == [routed |-> routed, params |-> params]

\* a lookup in which every method without a unit of its own falls back to GET
match_any_fallback(R, method, path) ==
    LET w == Walk(R, _split_path(path), 1, <<>>, <<>>)
    IN IF ~w.found THEN MatchOut(NoRouted, <<>>)
       ELSE
       LET m == Upper(method)
           own == IF <<w.node, m>> \in DOMAIN R.routed
                  THEN R.routed[<<w.node, m>>] ELSE NoRouted
           ownNames == IF <<w.node, m>> \in DOMAIN R.param_names
                       THEN R.param_names[<<w.node, m>>] ELSE <<>>
           fallback == ~own.present
           routed == IF fallback
                     THEN IF <<w.node, "GET">> \in DOMAIN R.routed
                          THEN R.routed[<<w.node, "GET">>] ELSE NoRouted
                     ELSE own
           names == IF fallback
                    THEN IF <<w.node, "GET">> \in DOMAIN R.param_names
                         THEN R.param_names[<<w.node, "GET">>] ELSE <<>>
                    ELSE ownNames
       IN MatchOut(routed, ZipDict(names, w.values))

\* router.py 176-194
match(R, method, path) ==
    LET w == Walk(R, _split_path(path), 1, <<>>, <<>>)
    IN IF ~w.found THEN MatchOut(NoRouted, <<>>)
       ELSE
       LET m == Upper(method)
           own == IF <<w.node, m>> \in DOMAIN R.routed
                  THEN R.routed[<<w.node, m>>] ELSE NoRouted
           ownNames == IF <<w.node, m>> \in DOMAIN R.param_names
                       THEN R.param_names[<<w.node, m>>] ELSE <<>>
           fallback == ~own.present /\ m = "HEAD"
           routed == IF fallback
                     THEN IF <<w.node, "GET">> \in DOMAIN R.routed
                          THEN R.routed[<<w.node, "GET">>] ELSE NoRouted
                     ELSE own
           names == IF fallback
                    THEN IF <<w.node, "GET">> \in DOMAIN R.param_names
                         THEN R.param_names[<<w.node, "GET">>] ELSE <<>>
                    ELSE ownNames
       IN MatchOut(routed, ZipDict(names, w.values))

\* ------------------------------------------------------------ composition

\* prefix.rstrip("/")
RECURSIVE RStrip(_)
RStrip(p) ==
    IF p # <<>> /\ p[Len(p)] = Slash THEN RStrip(SubSeq(p, 1, Len(p) - 1)) ELSE p

\* a join that leaves the prefix out
_join_dropping_prefix(prefix, path) == path

\* router.py 229-234
_join_prefix(prefix, path) ==
    IF prefix = <<>> THEN path
    ELSE IF path = <<Slash>> THEN prefix
    ELSE prefix \o path

\* the list objects the routes of `other` refer to become reachable from R
WithLists(R, other) ==
    [R EXCEPT !.lists =
        [ref \in DOMAIN R.lists \cup DOMAIN other.lists
                  \cup {<<"http", other.id>>, <<"ws", other.id>>} |->
            IF ref = <<"http", other.id>> THEN other.http_middlewares
            ELSE IF ref = <<"ws", other.id>> THEN other.ws_middlewares
            ELSE IF ref \in DOMAIN other.lists THEN other.lists[ref]
            ELSE R.lists[ref]]]

\* a merge that keeps the destination's provider when a key collides
RECURSIVE MergeProvidersSkipping(_, _, _)
MergeProvidersSkipping(R, other, i) ==
    IF i > Len(other.provider_order) THEN OpOut(R, NoErr)
    ELSE IF other.provider_order[i] \in DOMAIN R.providers
         THEN MergeProvidersSkipping(R, other, i + 1)
    ELSE MergeProvidersSkipping(provide(R, other.provider_order[i],
                                        other.providers[other.provider_order[i]].provider,
                                        other.providers[other.provider_order[i]].use_cache).R,
                                other, i + 1)

\* router.py 79-88: the providers of `other`, in insertion order; the loop
\* stops at the first key the destination already has
RECURSIVE MergeProviders(_, _, _)
MergeProviders(R, other, i) ==
    IF i > Len(other.provider_order) THEN OpOut(R, NoErr)
    ELSE IF other.provider_order[i] \in DOMAIN R.providers THEN OpOut(R, "ValueError")
    ELSE MergeProviders(provide(R, other.provider_order[i],
                                other.providers[other.provider_order[i]].provider,
                                other.providers[other.provider_order[i]].use_cache).R,
                        other, i + 1)

RECURSIVE IncludeRoutes(_, _, _, _)

\* router.py 90-93: o is what add_route gave for route spec i of `other`
IncludeRouteFrom(o, other, prefix, i) ==
    IF o.err # NoErr THEN o ELSE IncludeRoutes(o.R, other, prefix, i + 1)

\* router.py 90-93: every route spec of `other` is added under the prefix
\* with the middleware list the spec holds
IncludeRoutes(R, other, prefix, i) ==
    IF i > Len(other.route_specs) THEN OpOut(R, NoErr)
    ELSE IncludeRouteFrom(add_route(R, _join_prefix(prefix, other.route_specs[i].path),
                                    other.route_specs[i].handler,
                                    other.route_specs[i].methods,
                                    other.route_specs[i].middlewares),
                          other, prefix, i)

\* router.py 79-93: o is what merging the providers gave
IncludeProvided(o, other, prefix) ==
    IF o.err # NoErr THEN o ELSE IncludeRoutes(o.R, other, prefix, 1)

\* router.py 74-93
include_router(R, other, prefix) ==
    IF prefix # <<>> /\ ~StartsWithSlash(prefix) THEN OpOut(R, "ValueError")
    ELSE IncludeProvided(MergeProviders(WithLists(R, other), other, 1), other, RStrip(prefix))

\* router.py 68-69
add_middleware(R, mws) == [R EXCEPT !.http_middlewares = @ \o mws]

\* ------------------------------------------------ registration and lookup

\* "/a/{x}", "/a/s", "/a//{y}/", "/b" and the malformed "a/s"
P_ax  == <<"/", "a", "/", "{", "x", "}">>
P_as  == <<"/", "a", "/", "s">>
P_ay  == <<"/", "a", "/", "/", "{", "y", "}", "/">>
P_b   == <<"/", "b">>
P_bad == <<"a", "/", "s">>
\* request paths: "/a/s", "/a/t", "a/s/", "/b", "/a"
Q_at  == <<"/", "a", "/", "t">>
Q_as2 == <<"a", "/", "s", "/">>
Q_a   == <<"/", "a">>

RouteInput(path, handler, methods) ==
    [path |-> path, handler |-> handler, methods |-> methods]

\* the add_route calls of the model: a parameter route and its literal
\* sibling, the same parameter route spelled with another placeholder name,
\* repeated slashes and a lower-case method, handlers with implicit
\* dependencies on A and on B (whose provider needs A), a HEAD route and a
\* GET+HEAD route on one path, and a malformed path
RouteInputs ==
    {RouteInput(P_ax, "hx", <<"GET">>),
     RouteInput(P_as, "h0", <<"GET">>),
     RouteInput(P_ay, "h0", <<"POST", "get">>),
     RouteInput(P_as, "hA", <<"GET">>),
     RouteInput(P_b, "hA", <<"HEAD">>),
     RouteInput(P_b, "hB", <<"POST">>),
     RouteInput(P_b, "h0", <<"GET", "HEAD">>),
     RouteInput(P_bad, "h0", <<"GET">>)}

MatchPaths   == {P_as, Q_at, Q_as2, P_b}
MatchMethods == {"GET", "HEAD"}

NoLast == [op |-> "-", err |-> NoErr, path |-> <<>>, handler |-> "-", methods |-> <<>>,
           key |-> "-", routed |-> NoRouted, params |-> <<>>, pending |-> 0,
           other |-> "-"]

\* no application is serving while the router is being set up
NoApp == [http_middlewares |-> <<>>, exception_handlers |-> <<>>, ws_middlewares |-> <<>>]

RInit ==
    /\ router = NewRouter("r")
    /\ last = NoLast
    /\ app = NoApp
    /\ reqs = <<>>
    /\ nobj = 0

RProvide(key, use_cache) ==
    LET o == provide(router, key, ProviderOf(key), use_cache)
    IN /\ UNCHANGED qvars
       /\ router' = o.R
       /\ last' = [NoLast EXCEPT !.op = "provide", !.err = o.err, !.key = key]

RAddRoute(path, handler, methods) ==
    /\ Len(router.route_specs) < MaxRouteSpecs
    /\ UNCHANGED qvars
    /\ LET o == add_route(router, path, handler, methods, <<"-", "-">>)
       IN /\ router' = o.R
          /\ last' = [NoLast EXCEPT !.op = "add_route", !.err = o.err, !.path = path,
                                    !.handler = handler, !.methods = methods]

RCompile ==
    LET o == compile(router)
    IN /\ UNCHANGED qvars
       /\ router' = o.R
       /\ last' = [NoLast EXCEPT !.op = "compile", !.err = o.err,
                                 !.pending = Cardinality(DOMAIN router.handlers
                                                         \ DOMAIN router.routed)]

RMatch(method, path) ==
    LET o == match(router, method, path)
    IN /\ UNCHANGED qvars
       /\ router' = router
       /\ last' = [NoLast EXCEPT !.op = "match", !.methods = <<method>>, !.path = path,
                                 !.routed = o.routed, !.params = o.params]

RNext ==
    \/ \E key \in DepKeys : RProvide(key, TRUE)
    \/ \E r \in RouteInputs : RAddRoute(r.path, r.handler, r.methods)
    \/ RCompile
    \/ \E method \in MatchMethods, path \in MatchPaths : RMatch(method, path)

SpecRouter == RInit /\ [][RNext]_vars

\* ------------------------------------------------- composing routers

\* "/", "/p", the prefixes "", "/p/" and the malformed "p", and the request
\* paths "/p/", "/p/a/4", "/a/4"
P_root == <<"/">>
P_p    == <<"/", "p">>
Pre_none == <<>>
Pre_p  == <<"/", "p", "/">>
Pre_bad == <<"p">>
\* the prefix "/{t}"
Pre_t  == <<"/", "{", "t", "}">>
Q_p2   == <<"/", "p", "/">>
Q_pa4  == <<"/", "p", "/", "a", "/", "4">>
Q_a4   == <<"/", "a", "/", "4">>
Q_pb   == <<"/", "p", "/", "b">>

\* sub-router c: an interceptor C, a root route and a parameter route
Sub_c ==
    add_route(add_route(add_middleware(NewRouter("c"), <<"C">>),
                        P_root, "h0", <<"GET">>, <<"-", "-">>).R,
              P_ax, "hx", <<"GET">>, <<"-", "-">>).R

\* sub-router d: providers for A (not cached) and B, and a route that needs B
Sub_d ==
    add_route(provide(provide(NewRouter("d"), "A", "pA", FALSE).R, "B", "pB", TRUE).R,
              P_as, "hB", <<"GET">>, <<"-", "-">>).R

\* sub-router n: no providers, a route whose handler needs A (not yet resolved)
Sub_n == add_route(NewRouter("n"), P_b, "hA", <<"GET">>, <<"-", "-">>).R

SubRouters == {Sub_c, Sub_d, Sub_n}

SubById(id) == CHOOSE o \in SubRouters : o.id = id

IncludePrefixes == {Pre_none, Pre_p, Pre_bad, Pre_t}

ComposeRoutes == {RouteInput(P_p, "h0", <<"GET">>)}

ComposePaths == {Q_p2, Q_pa4, Q_pb}

RInclude(other, prefix) ==
    /\ Len(router.route_specs) < MaxRouteSpecs
    /\ UNCHANGED qvars
    /\ LET o == include_router(router, other, prefix)
       IN /\ router' = o.R
          /\ last' = [NoLast EXCEPT !.op = "include", !.err = o.err, !.path = prefix,
                                    !.other = other.id]

CNext ==
    \/ \E key \in DepKeys : RProvide(key, TRUE)
    \/ \E r \in ComposeRoutes : RAddRoute(r.path, r.handler, r.methods)
    \/ \E other \in SubRouters, prefix \in IncludePrefixes : RInclude(other, prefix)
    \/ RCompile
    \/ \E path \in ComposePaths : RMatch("GET", path)

SpecCompose == RInit /\ [][CNext]_vars

\* ------------------------------------------------- lookups of spelled paths

\* "/a//s", "//a/s//", "a//t/", "b", "/b//"
Q_as3 == <<"/", "a", "/", "/", "s">>
Q_as4 == <<"/", "/", "a", "/", "s", "/", "/">>
Q_at2 == <<"a", "/", "/", "t", "/">>
Q_b2  == <<"b">>
Q_b3  == <<"/", "b", "/", "/">>

\* spellings of "/a/s", "/a/t" and "/b" with leading, trailing and repeated
\* slashes added or left out
Spellings == {P_as, Q_as2, Q_as3, Q_as4, Q_at, Q_at2, P_b, Q_b2, Q_b3}

\* a parameter route, a literal sibling whose handler needs A, the same
\* parameter position under POST with another placeholder name and a handler
\* that needs A, and "/b"
LookupRoutes ==
    {RouteInput(P_ax, "hx", <<"GET">>),
     RouteInput(P_as, "hA", <<"GET">>),
     RouteInput(P_ay, "hA", <<"POST">>),
     RouteInput(P_b, "h0", <<"GET">>)}

LNext ==
    \/ RProvide("A", TRUE)
    \/ \E r \in LookupRoutes : RAddRoute(r.path, r.handler, r.methods)
    \/ RCompile
    \/ \E method \in {"GET", "POST"}, path \in Spellings : RMatch(method, path)

SpecLookup == RInit /\ [][LNext]_vars

\* ----------------------------------------------------- static precedence

Node_as == RouteNode(P_as)
Node_ax == RouteNode(P_ax)

\* the positions of a walked node that were reached through the parameter child
ParamPositions(node) == {i \in 1..Len(node) : node[i] = ParamEdge}

RECURSIVE SeqOfSet(_, _)
SeqOfSet(S, f) ==
    IF S = {} THEN <<>>
    ELSE LET i == SeqMin(S) IN <<f[i]>> \o SeqOfSet(S \ {i}, f)

\* C1: at every depth of a lookup the literal child that equals the request
\* segment is taken when it exists, nothing is captured for that segment, and
\* the parameter child is taken (capturing the segment) only when no literal
\* child equals it; with GET /a/{x} and GET /a/s both registered, a lookup of
\* GET /a/s yields the unit registered at /a/s with an empty parameter map.
C1_StaticPrecedence ==
    /\ \A path \in MatchPaths :
          LET segs == _split_path(path)
              w == Walk(router, segs, 1, <<>>, <<>>)
          IN w.found =>
                /\ Len(w.node) = Len(segs)
                /\ \A i \in 1..Len(segs) :
                      LET lit == Append(SubSeq(w.node, 1, i - 1), segs[i])
                      IN /\ lit \in router.nodes => w.node[i] = segs[i]
                         /\ w.node[i] = ParamEdge => lit \notin router.nodes
                /\ w.values = SeqOfSet(ParamPositions(w.node), segs)
    /\ ( /\ last.op = "match"
         /\ last.methods = <<"GET">>
         /\ last.path \in {P_as, Q_as2}
         /\ <<Node_as, "GET">> \in DOMAIN router.routed
         /\ <<Node_ax, "GET">> \in DOMAIN router.routed )
       => /\ last.routed = router.routed[<<Node_as, "GET">>]
          /\ last.routed.compiled.fn = router.handlers[<<Node_as, "GET">>]
          /\ last.params = <<>>

C1_Witness ==
    /\ last.op = "match"
    /\ last.methods = <<"GET">>
    /\ last.path = P_as
    /\ <<Node_as, "GET">> \in DOMAIN router.routed
    /\ <<Node_ax, "GET">> \in DOMAIN router.routed
    /\ router.handlers[<<Node_ax, "GET">>] = "hx"
    /\ last.routed.compiled.fn # "hx"
    /\ last.params = <<>>

\* ------------------------------------------- deferred provider protocol

\* fn has an implicit type-based dependency, its own or one of a provider it
\* reaches, with no provider, no default, and a type that is neither optional
\* nor a request-data type
RECURSIVE Unresolved(_, _)
Unresolved(fn, providers) ==
    \E i \in 1..Len(Signature(fn)) :
        LET p == Signature(fn)[i]
        IN \/ /\ p.kind = "type"
              /\ ~p.has_default /\ ~p.optional /\ ~p.data
              /\ p.key \notin DOMAIN providers
           \/ /\ p.kind = "type"
              /\ p.key \in DOMAIN providers
              /\ Unresolved(providers[p.key].provider, providers)
           \/ /\ p.kind = "depends"
              /\ Unresolved(p.provider, providers)

\* no method of the call is registered at the path's node, nor listed twice
FreshRoute(R, path, methods) ==
    /\ \A i \in 1..Len(methods) :
          <<RouteNode(path), Upper(methods[i])>> \notin DOMAIN R.handlers
    /\ \A i, j \in 1..Len(methods) :
          Upper(methods[i]) = Upper(methods[j]) => i = j

C8_Step ==
    /\ ( /\ last'.op = "add_route"
         /\ ~router.compiled_once
         /\ StartsWithSlash(last'.path)
         /\ Unresolved(last'.handler, router.providers)
         /\ FreshRoute(router, last'.path, last'.methods) )
       => /\ last'.err = NoErr
          /\ \A i \in 1..Len(last'.methods) :
                LET k == <<RouteNode(last'.path), Upper(last'.methods[i])>>
                IN /\ k \in DOMAIN router'.handlers
                   /\ router'.handlers[k] = last'.handler
                   /\ \E j \in 1..Len(router'.routes) : router'.routes[j] = k
                   /\ k \notin DOMAIN router'.routed
    /\ last'.op = "compile"
       => IF \E k \in DOMAIN router.handlers :
                Unresolved(router.handlers[k], router.providers)
          THEN last'.err = "MissingProviderError"
          ELSE /\ last'.err = NoErr
               /\ \A k \in DOMAIN router.handlers :
                     /\ k \in DOMAIN router'.routed
                     /\ router'.routed[k].compiled.fn = router.handlers[k]
               /\ \A n \in 1..Len(router.route_specs) :
                     LET s == router.route_specs[n]
                     IN \A i \in 1..Len(s.methods) :
                           LET k == <<RouteNode(s.path), Upper(s.methods[i])>>
                           IN k \in DOMAIN router.handlers
                              => match(router', s.methods[i], s.path).routed
                                    = router'.routed[k]

\* C8: before compile() was ever called, add_route of a handler with an
\* implicit dependency that has no provider (no default, not optional)
\* succeeds and records the route, not yet dispatchable; compile() raises the
\* missing-provider error while a recorded handler is still unresolved, and
\* otherwise succeeds and makes every recorded route dispatchable by match.
C8_DeferredMissingProvider == [][C8_Step]_vars

\* compile() succeeded on routes that had been recorded without a unit
C8_Witness ==
    /\ last.op = "compile"
    /\ last.err = NoErr
    /\ last.pending > 0
    /\ \E k \in DOMAIN router.handlers :
          /\ router.handlers[k] \in {"hA", "hB"}
          /\ k \in DOMAIN router.routed

C9_Step ==
    ( /\ last'.op = "add_route"
      /\ router.compiled_once
      /\ StartsWithSlash(last'.path) )
    => /\ Unresolved(last'.handler, router.providers)
          => /\ last'.err = "MissingProviderError"
             /\ router'.handlers = router.handlers
       /\ ( /\ ~Unresolved(last'.handler, router.providers)
            /\ FreshRoute(router, last'.path, last'.methods) )
          => /\ last'.err = NoErr
             /\ \A i \in 1..Len(last'.methods) :
                   LET m == match(router', last'.methods[i], last'.path)
                   IN /\ m.routed.present
                      /\ m.routed.compiled.fn = last'.handler

\* C9: once compile() has been called, add_route of a handler whose implicit
\* dependency has no provider raises the missing-provider error at once, and
\* add_route of a handler whose dependencies resolve succeeds with the route
\* dispatchable by match straight away.
C9_NoDeferralAfterCompile == [][C9_Step]_vars

\* a handler needing A was registered after compile() and is dispatchable
C9_Witness ==
    /\ last.op = "add_route"
    /\ last.err = NoErr
    /\ router.compiled_once
    /\ last.handler = "hA"
    /\ match(router, last.methods[1], last.path).routed.present
    /\ match(router, last.methods[1], last.path).routed.compiled.fn = "hA"

\* ---------------------------------------------------- duplicate routes

\* the same sequence of non-empty segments, placeholders matching placeholders
SameRoute(p, q) ==
    LET a == _split_path(p)
        b == _split_path(q)
    IN /\ Len(a) = Len(b)
       /\ \A i \in 1..Len(a) :
             \/ _is_param(a[i]) /\ _is_param(b[i])
             \/ ~_is_param(a[i]) /\ ~_is_param(b[i]) /\ a[i] = b[i]

C10_Step ==
    /\ \A k \in DOMAIN router.handlers :
          k \in DOMAIN router'.handlers /\ router'.handlers[k] = router.handlers[k]
    /\ ( last'.op = "add_route" /\ StartsWithSlash(last'.path) )
       => /\ \A n \in 1..Len(router.route_specs) :
                SameRoute(router.route_specs[n].path, last'.path)
                   <=> RouteNode(router.route_specs[n].path) = RouteNode(last'.path)
          /\ \A i \in 1..Len(last'.methods) :
                LET m == last'.methods[i]
                    k == <<RouteNode(last'.path), Upper(m)>>
                IN k \in DOMAIN router.handlers
                   => /\ last'.err # NoErr
                      /\ ~Unresolved(last'.handler, router.providers)
                            => last'.err = "ValueError"
                      /\ (k \in DOMAIN router'.routed) = (k \in DOMAIN router.routed)
                      /\ k \in DOMAIN router.routed
                         => /\ router'.routed[k] = router.routed[k]
                            /\ match(router', m, last'.path) = match(router, m, last'.path)
                            /\ match(router', m, last'.path).routed.compiled.fn
                                  = router.handlers[k]

P_rx == <<"/", "r", "/", "{", "x", "}">>
Q_r4 == <<"/", "r", "/", "4">>
Q_rz == <<"/", "r", "/", "z">>
Q_q  == <<"/", "q">>

Digits == {"0", "1", "2", "3", "4", "5", "6", "7", "8", "9"}

\* utils.convert_value(value, int): int(value) on a path segment
ConvertsToInt(v) == Len(v) > 0 /\ \A i \in 1..Len(v) : v[i] \in Digits

\* the attributes the objects of each provider have
Offers(provider) ==
    CASE provider = "pA" -> {"close"}
      [] provider = "pB" -> {"__enter__", "__exit__"}
      [] provider = "pR" -> {"aclose"}
      [] OTHER -> {}

\* A value produced by a provider: a new object each time the provider
\* runs.  via = "enter" is what entering that object as a context manager
\* returned.
\* attrs is what hasattr / getattr find on the object.
Value(id, by) == [id |-> id, by |-> by, via |-> "self", attrs |-> Offers(by)]
NoObj == [id |-> 0, by |-> "-", via |-> "-", attrs |-> {}]

\* what _default_or_error handed to the handler: the default or None
Yield(what) == [id |-> 0, by |-> what, via |-> "-", attrs |-> {}]

Event(e, who, idx, key, use_cache, obj) ==
    [e |-> e, who |-> who, idx |-> idx, key |-> key, use_cache |-> use_cache, obj |-> obj]

\* one running CompiledHandler.__call__: the compiled function, the next
\* resolver to run, and (for a provider) the dependency resolver awaiting it
Frame(cp, res) == [cp |-> cp, i |-> 1, res |-> res]

\* errors.py 4-15: an HTTPError carries a status, a detail and headers
HTTPError(status, detail, headers) ==
    [cls |-> "HTTPError", status |-> status, detail |-> detail, headers |-> headers]

\* an exception of any other class
Exc(cls) == [cls |-> cls, status |-> 0, detail |-> <<>>, headers |-> <<>>]

NoExc == Exc("-")

\* what user code (handler, provider, middleware) raises
Raised(outcome) ==
    IF outcome = "HTTPError" THEN HTTPError(418, <<"teapot">>, <<"x-tea">>)
    ELSE Exc(outcome)

\* app.py 200: type(exc).__mro__ of the exception classes of the model
Mro(cls) ==
    CASE cls = "KeyError"  -> <<"KeyError", "LookupError", "Exception", "BaseException", "object">>
      [] cls = "CancelledError" -> <<"CancelledError", "BaseException", "object">>
      [] cls = "Exception" -> <<"Exception", "BaseException", "object">>
      [] OTHER             -> <<cls, "Exception", "BaseException", "object">>

\* response.py 29, 54
Start(status, headers) ==
    [type |-> "http.response.start", status |-> status, headers |-> headers,
     body |-> <<>>, more_body |-> FALSE]

\* response.py 30, 57, 61
Body(body, more_body) ==
    [type |-> "http.response.body", status |-> 0, headers |-> <<>>,
     body |-> body, more_body |-> more_body]

\* request.py 11-29 and app.py 62-64.  msgs is what went through send so
\* far and sent the status of each response start in it; given is the set
\* of sources that hold the value an extractor of the handler reads
NewRequest ==
    [phase |-> "new", method |-> "-", path |-> <<>>, params |-> <<>>,
     routed |-> NoRouted, chain |-> <<>>, j |-> 0, stack |-> <<>>,
     di_cache |-> <<>>, exit_stack |-> <<>>, has_stack |-> TRUE,
     trace |-> <<>>, sent |-> <<>>, msgs |-> <<>>, result |-> "-",
     exc |-> NoExc, found |-> "-", handled |-> "-", escaped |-> FALSE,
     given |-> {}, first |-> "-", accepted |-> FALSE, closed |-> FALSE, closing |-> 0,
     calls |-> 0, exits |-> <<>>]

Top(q) == q.stack[Len(q.stack)]

Log(q, ev) == [q EXCEPT !.trace = Append(@, ev)]

\* handler.py 41: the resolver returned, the loop goes to the next parameter
Advance(q) == [q EXCEPT !.stack[Len(q.stack)].i = @ + 1]

\* app.py 63: leaving the async with block closes the exit stack
Teardown(q) ==
    [q EXCEPT !.phase = IF q.exit_stack = <<>> THEN "done" ELSE "teardown",
              !.stack = <<>>]

\* an exception raised by `who` leaves the try block of app.py 71-74
Raise(q, who, idx, exc) ==
    [Log(q, Event("raise", who, idx, NoKey, FALSE, NoObj))
        EXCEPT !.phase = "raised", !.stack = <<>>, !.exc = exc]

\* response.py 28-30: Response.__call__
SendResponse(q, status, headers, body) ==
    [q EXCEPT !.msgs = @ \o <<Start(status, headers), Body(body, FALSE)>>,
              !.sent = Append(@, status)]

\* response.py 53-57: StreamingResponse.__call__ up to its first chunk
StreamStarted(q) ==
    [q EXCEPT !.msgs = @ \o <<Start(200, <<>>), Body(<<"chunk">>, TRUE)>>,
              !.sent = Append(@, 200)]

\* response.py 53-61: the body was iterated to its end
Streamed(q) == [StreamStarted(q) EXCEPT !.msgs = Append(@, Body(<<>>, FALSE))]

InternalServerError == <<"Internal Server Error">>

\* app.py 163-176
_send_error(q, detail, status, headers) == SendResponse(q, status, headers, detail)

\* router.py 120-121, app.py 182: the list object the unit refers to
RouteMiddlewares(R, routed) ==
    IF routed.middlewares = <<"http", R.id>> THEN R.http_middlewares
    ELSE IF routed.middlewares = <<"ws", R.id>> THEN R.ws_middlewares
    ELSE IF routed.middlewares \in DOMAIN R.lists THEN R.lists[routed.middlewares]
    ELSE <<>>

\* a dispatch that puts the route's interceptors outside the global ones
RouteMiddlewaresOutermost(A, R, routed) == RouteMiddlewares(R, routed) \o A.http_middlewares

\* app.py 183
AllMiddlewares(A, R, routed) == A.http_middlewares \o RouteMiddlewares(R, routed)

\* app.py 179-180, 197: past the innermost middleware the endpoint calls the unit
Descend(q) ==
    IF q.j <= Len(q.chain) THEN q
    ELSE [q EXCEPT !.phase = "resolve",
                   !.stack = <<Frame(q.routed.compiled, NoResolver("-"))>>]

\* app.py 65-71: m is what Router.match returned
Started(q, A, R, method, path, m) ==
    IF ~m.routed.present
    THEN Teardown(SendResponse([q EXCEPT !.method = method, !.path = path],
                               404, <<>>, <<"Not Found">>))
    ELSE Descend([q EXCEPT !.method = method, !.path = path, !.phase = "mw",
                           !.routed = m.routed, !.params = m.params,
                           !.chain = AllMiddlewares(A, R, m.routed), !.j = 1])

\* app.py 62-71
_handle_http(q, A, R, method, path) ==
    Started(q, A, R, method, path, match(R, method, path))

\* app.py 186-197: middleware j runs up to its call of the continuation
MiddlewareBefore(q) ==
    Descend([Log(q, Event("mw_before", q.chain[q.j], q.j, NoKey, FALSE, NoObj))
                EXCEPT !.j = @ + 1])

\* handler.py 344-350
_default_or_error(q, fn, idx, res) ==
    IF res.has_default
    THEN Advance(Log(q, Event("value", fn, idx, NoKey, FALSE, Yield("default"))))
    ELSE IF res.optional
    THEN Advance(Log(q, Event("value", fn, idx, NoKey, FALSE, Yield("None"))))
    ELSE Raise(q, fn, idx, HTTPError(422, <<"Missing required value for", res.name>>, <<>>))

\* a path extractor that passes the raw segment on when conversion fails
resolve_path_lenient(q, fn, idx, res) ==
    IF res.pkey \notin DOMAIN q.params THEN _default_or_error(q, fn, idx, res)
    ELSE Advance(q)

\* handler.py 234-237
resolve_path(q, fn, idx, res) ==
    IF res.pkey \notin DOMAIN q.params THEN _default_or_error(q, fn, idx, res)
    ELSE IF ConvertsToInt(q.params[res.pkey]) THEN Advance(q)
    ELSE Raise(q, fn, idx, HTTPError(422, <<"Invalid path parameter", res.pkey>>, <<>>))

\* a resolver that never looks in the request cache
NeverHit(q, res) == FALSE

\* handler.py 334: whether resolve answers from the request cache
CacheHit(q, res) == res.use_cache /\ res.key \in DOMAIN q.di_cache

\* a resolver that calls the provider body without resolving the provider's
\* own parameters
resolve_flat(q, fn, idx, res) ==
    IF CacheHit(q, res)
    THEN Advance(Log(q, Event("dep", fn, idx, res.key, res.use_cache, q.di_cache[res.key])))
    ELSE [q EXCEPT !.stack = Append(@, [Frame(res.cp, res) EXCEPT !.i = Len(res.cp.resolvers) + 1])]

\* handler.py 330-336: the resolver of a dependency up to its first await:
\* a cached value is returned, otherwise the compiled provider is called
resolve_begin(q, fn, idx, res) ==
    IF CacheHit(q, res)
    THEN Advance(Log(q, Event("dep", fn, idx, res.key, res.use_cache, q.di_cache[res.key])))
    ELSE [q EXCEPT !.stack = Append(@, Frame(res.cp, res))]

SourceKinds == {"query", "header", "state", "form", "file", "json"}

\* handler.py 165-168, 183-186, 195-207, 216-223, 244-246, 254-256: the
\* extractors other than Path, up to the test for a missing value
resolve_source(q, fn, idx, res) ==
    IF res.kind \notin q.given THEN _default_or_error(q, fn, idx, res)
    ELSE Advance(q)

\* handler.py 40-41: the next resolver of the running compiled function
RunResolver(q, fn, idx, res) ==
    CASE res.kind = "dep"  -> resolve_begin(q, fn, idx, res)
      [] res.kind = "path" -> resolve_path(q, fn, idx, res)
      [] res.kind \in SourceKinds -> resolve_source(q, fn, idx, res)
      [] res.kind = "none" ->
            Advance(Log(q, Event("value", fn, idx, NoKey, FALSE, Yield("None"))))
      [] res.kind = "default" ->
            Advance(Log(q, Event("value", fn, idx, NoKey, FALSE, Yield("default"))))
      [] OTHER             -> Advance(q)

ResolveNext(q) ==
    RunResolver(Log(q, Event("param", Top(q).cp.fn, Top(q).i, NoKey, FALSE, NoObj)),
                Top(q).cp.fn, Top(q).i, Top(q).cp.resolvers[Top(q).i])

\* what __enter__ / __aenter__ of the value returned
Entered(value) == [value EXCEPT !.via = "enter"]

\* di.py 53-75: the value handed back and the exit stack after registration
Registered(exit_stack, value, how) == Append(exit_stack, [obj |-> value, how |-> how])

\* a register that looks for the synchronous pair and for close first
enter_resource_sync_first(exit_stack, has_stack, value) ==
    IF ~has_stack THEN [value |-> value, exit_stack |-> exit_stack]
    ELSE IF {"__enter__", "__exit__"} \subseteq value.attrs
    THEN [value |-> Entered(value), exit_stack |-> Registered(exit_stack, value, "exit")]
    ELSE IF {"__aenter__", "__aexit__"} \subseteq value.attrs
    THEN [value |-> Entered(value), exit_stack |-> Registered(exit_stack, value, "aexit")]
    ELSE IF "close" \in value.attrs
    THEN [value |-> value, exit_stack |-> Registered(exit_stack, value, "close")]
    ELSE IF "aclose" \in value.attrs
    THEN [value |-> value, exit_stack |-> Registered(exit_stack, value, "aclose")]
    ELSE [value |-> value, exit_stack |-> exit_stack]

enter_resource(exit_stack, has_stack, value) ==
    IF ~has_stack THEN [value |-> value, exit_stack |-> exit_stack]
    ELSE IF {"__aenter__", "__aexit__"} \subseteq value.attrs
    THEN [value |-> Entered(value), exit_stack |-> Registered(exit_stack, value, "aexit")]
    ELSE IF {"__enter__", "__exit__"} \subseteq value.attrs
    THEN [value |-> Entered(value), exit_stack |-> Registered(exit_stack, value, "exit")]
    ELSE IF "aclose" \in value.attrs
    THEN [value |-> value, exit_stack |-> Registered(exit_stack, value, "aclose")]
    ELSE IF "close" \in value.attrs
    THEN [value |-> value, exit_stack |-> Registered(exit_stack, value, "close")]
    ELSE [value |-> value, exit_stack |-> exit_stack]

\* a resolver that stores every value in the request cache
ResolvedAlwaysStored(q, res, value, er) ==
    LET parent == q.stack[Len(q.stack) - 1]
        q1 == Log(q, Event("invoke", value.by, 0, res.key, res.use_cache, value))
        q2 == IF er.exit_stack = q.exit_stack THEN q1
              ELSE Log(q1, Event("acquire", value.by, 0, res.key, res.use_cache, value))
        q3 == Log(q2, Event("dep", parent.cp.fn, parent.i, res.key, res.use_cache, er.value))
    IN Advance([q3 EXCEPT !.stack = SubSeq(@, 1, Len(@) - 1),
                          !.exit_stack = er.exit_stack,
                          !.di_cache = Put(@, res.key, er.value)])

\* handler.py 331-339: the provider returned `value`, er is what
\* enter_resource gave; the cache is written only by a cache-enabled resolver
Resolved(q, res, value, er) ==
    LET parent == q.stack[Len(q.stack) - 1]
        q1 == Log(q, Event("invoke", value.by, 0, res.key, res.use_cache, value))
        q2 == IF er.exit_stack = q.exit_stack THEN q1
              ELSE Log(q1, Event("acquire", value.by, 0, res.key, res.use_cache, value))
        q3 == Log(q2, Event("dep", parent.cp.fn, parent.i, res.key, res.use_cache, er.value))
    IN Advance([q3 EXCEPT !.stack = SubSeq(@, 1, Len(@) - 1),
                          !.exit_stack = er.exit_stack,
                          !.di_cache = IF res.use_cache THEN Put(@, res.key, er.value) ELSE @])

\* handler.py 42-45 for a provider: its body runs once its own parameters
\* are resolved, and returns a new object or raises
ProviderCalled(q, n, outcome) ==
    IF outcome # "ok"
    THEN Raise(Log(q, Event("invoke", Top(q).cp.fn, 0, Top(q).res.key,
                            Top(q).res.use_cache, NoObj)),
               Top(q).cp.fn, 0, Raised(outcome))
    ELSE Resolved(q, Top(q).res, Value(n + 1, Top(q).cp.fn),
                  enter_resource(q.exit_stack, q.has_stack, Value(n + 1, Top(q).cp.fn)))

\* what a handler returns: a plain value, None, a tuple of a wrong length,
\* a stream that ends, a stream whose iteration raises after its first chunk
Results == {"ok", "None", "bad_tuple", "stream_ok", "stream_fail"}

\* handler.py 42-45 for the route handler, then app.py 197 back up the chain
HandlerCalled(q, outcome) ==
    LET q1 == Log(q, Event("handler", Top(q).cp.fn, 0, NoKey, FALSE, NoObj))
    IN IF outcome \notin Results THEN Raise(q1, Top(q).cp.fn, 0, Raised(outcome))
       ELSE [q1 EXCEPT !.stack = <<>>,
                       !.result = outcome,
                       !.j = Len(q.chain),
                       !.phase = IF Len(q.chain) = 0 THEN "respond" ELSE "unwind"]

\* app.py 193: the continuation returned into middleware j
MiddlewareAfter(q) ==
    [Log(q, Event("mw_after", q.chain[q.j], q.j, NoKey, FALSE, NoObj))
        EXCEPT !.j = @ - 1, !.phase = IF q.j = 1 THEN "respond" ELSE "unwind"]

\* app.py 72-74: to_response (response.py 64-94) and the response's __call__
Responded(q) ==
    CASE q.result = "None"        -> Teardown(SendResponse(q, 204, <<>>, <<>>))
      [] q.result = "bad_tuple"   -> Raise(q, "to_response", 0, Exc("ValueError"))
      [] q.result = "stream_ok"   -> Teardown(Streamed(q))
      [] q.result = "stream_fail" -> Raise(StreamStarted(q), "response", 0, Exc("RuntimeError"))
      [] OTHER                    -> Teardown(SendResponse(q, 200, <<>>, <<"json">>))

\* a lookup that walks the hierarchy from the least specific class
RECURSIVE LeastSpecificRegistered(_, _, _)
LeastSpecificRegistered(table, mro, i) ==
    IF i > Len(mro) THEN "-"
    ELSE IF mro[Len(mro) + 1 - i] \in DOMAIN table THEN mro[Len(mro) + 1 - i]
    ELSE LeastSpecificRegistered(table, mro, i + 1)

\* app.py 199-203: the first class of the hierarchy with a registered handler
RECURSIVE FirstRegistered(_, _, _)
FirstRegistered(table, mro, i) ==
    IF i > Len(mro) THEN "-"
    ELSE IF mro[i] \in DOMAIN table THEN mro[i]
    ELSE FirstRegistered(table, mro, i + 1)

\* an except clause order that sends every exception through the table
ExceptedByTable(q, A) ==
    IF FirstRegistered(A.exception_handlers, Mro(q.exc.cls), 1) = "-"
    THEN IF q.exc.cls = "HTTPError"
         THEN Teardown(_send_error(q, q.exc.detail, q.exc.status, q.exc.headers))
         ELSE Teardown(_send_error(q, InternalServerError, 500, <<>>))
    ELSE [q EXCEPT !.phase = "exc_handler",
                   !.found = FirstRegistered(A.exception_handlers, Mro(q.exc.cls), 1)]

\* app.py 75-79, 86-88 and 199-203: the except clauses of _handle_http up to
\* the call of a registered exception handler
Excepted(q, A) ==
    IF \A i \in DOMAIN Mro(q.exc.cls) : Mro(q.exc.cls)[i] # "Exception"
    THEN Teardown([q EXCEPT !.escaped = TRUE])
    ELSE IF q.exc.cls = "HTTPError"
    THEN Teardown(_send_error(q, q.exc.detail, q.exc.status, q.exc.headers))
    ELSE IF FirstRegistered(A.exception_handlers, Mro(q.exc.cls), 1) = "-"
    THEN Teardown(_send_error(q, InternalServerError, 500, <<>>))
    ELSE [q EXCEPT !.phase = "exc_handler",
                   !.found = FirstRegistered(A.exception_handlers, Mro(q.exc.cls), 1)]

\* app.py 204-207 and 79-88: the registered handler ran.  Its exception
\* leaves _handle_http; its result becomes the response, and a failure
\* while building or sending that response falls through to the 500
ExceptionHandled(q, outcome) ==
    LET q1 == [Log(q, Event("exc_handler", q.found, 0, NoKey, FALSE, NoObj))
                 EXCEPT !.handled = outcome]
    IN CASE outcome = "raise"       -> Teardown([q1 EXCEPT !.escaped = TRUE])
         [] outcome = "None"        -> Teardown(_send_error(q1, InternalServerError, 500, <<>>))
         [] outcome = "bad_tuple"   -> Teardown(_send_error(q1, InternalServerError, 500, <<>>))
         [] outcome = "stream_ok"   -> Teardown(Streamed(q1))
         [] outcome = "stream_fail" ->
                Teardown(_send_error(StreamStarted(q1), InternalServerError, 500, <<>>))
         [] OTHER                   -> Teardown(SendResponse(q1, 200, <<>>, <<"json">>))

\* app.py 186-193: middleware j raises instead of calling the continuation
MiddlewareRaised(q, outcome) ==
    Raise(Log(q, Event("mw_before", q.chain[q.j], q.j, NoKey, FALSE, NoObj)),
          q.chain[q.j], q.j, Raised(outcome))

\* the exception on its way out of the async with block of app.py 63, if any
Propagating(q) ==
    IF ~q.escaped THEN "None"
    ELSE IF q.handled = "raise" THEN "RuntimeError"
    ELSE q.exc.cls

\* contextlib: __exit__ and __aexit__ are given the exception that leaves the
\* block, a callback registered for close or aclose is given nothing
Exit(q, entry) ==
    [by |-> entry.obj.by, how |-> entry.how,
     exc |-> IF entry.how \in {"exit", "aexit"} THEN Propagating(q) ELSE "None"]

\* a teardown that runs the callback registered first
ReleaseOldest(q) ==
    [Log(q, Event("release", q.exit_stack[1].obj.by, 0, <<"cleanup", q.exit_stack[1].how>>,
                  FALSE, q.exit_stack[1].obj))
        EXCEPT !.exit_stack = SubSeq(@, 2, Len(@)),
               !.exits = Append(@, Exit(q, q.exit_stack[1])),
               !.phase = IF Len(q.exit_stack) = 1 THEN "done" ELSE "teardown"]

\* contextlib.AsyncExitStack.__aexit__ through app.py 63: the callback
\* registered last runs first
ReleaseNext(q) ==
    [Log(q, Event("release", q.exit_stack[Len(q.exit_stack)].obj.by, 0,
                  <<"cleanup", q.exit_stack[Len(q.exit_stack)].how>>, FALSE,
                  q.exit_stack[Len(q.exit_stack)].obj))
        EXCEPT !.exit_stack = SubSeq(@, 1, Len(@) - 1),
               !.exits = Append(@, Exit(q, q.exit_stack[Len(q.exit_stack)])),
               !.phase = IF Len(q.exit_stack) = 1 THEN "done" ELSE "teardown"]

\* ------------------------------------------------- one application serving

ReqHandlers == {"h0", "hBA", "hAB", "hRR", "hMix", "hAx", "hxA", "hBx"}

\* global middlewares (BardApp.add_middleware order) and the router's own
MwConfigs ==
    {[global |-> <<>>, route |-> <<>>],
     [global |-> <<"A", "B">>, route |-> <<"R">>],
     [global |-> <<"B">>, route |-> <<"R", "S">>]}

\* Router(); provide(A), provide(B); get("/r/{x}", h); add_middleware;
\* BardApp(router) compiles
ConfiguredRouter(h, ucA, mws) ==
    compile(add_middleware(
              add_route(provide(provide(NewRouter("r"), "A", "pA", ucA).R,
                                "B", "pB", TRUE).R,
                        P_rx, h, <<"GET">>, <<"-", "-">>).R,
              mws)).R

RequestPaths == {Q_r4, Q_rz, Q_q}

QInit ==
    \E h \in ReqHandlers, ucA \in BOOLEAN, mw \in MwConfigs :
        /\ router = ConfiguredRouter(h, ucA, mw.route)
        /\ last = NoLast
        /\ app = [http_middlewares |-> mw.global, exception_handlers |-> <<>>, ws_middlewares |-> <<>>]
        /\ reqs = [r \in {1} |-> NewRequest]
        /\ nobj = 0

\* requests that keep their dependency values in one cache of the application
StepSharingCache(r, q) ==
    /\ reqs' = [x \in DOMAIN reqs |->
                  IF x = r THEN q ELSE [reqs[x] EXCEPT !.di_cache = q.di_cache]]
    /\ UNCHANGED <<router, last, app>>

\* one request runs up to its next await; the others are untouched
Step(r, q) ==
    /\ reqs' = [reqs EXCEPT ![r] = q]
    /\ UNCHANGED <<router, last, app>>

HandleHttp(r, path) ==
    /\ reqs[r].phase = "new"
    /\ Step(r, _handle_http(reqs[r], app, router, "GET", path))
    /\ UNCHANGED nobj

MwBefore(r) ==
    /\ reqs[r].phase = "mw"
    /\ Step(r, MiddlewareBefore(reqs[r]))
    /\ UNCHANGED nobj

ResolveParam(r) ==
    /\ reqs[r].phase = "resolve"
    /\ Top(reqs[r]).i <= Len(Top(reqs[r]).cp.resolvers)
    /\ Step(r, ResolveNext(reqs[r]))
    /\ UNCHANGED nobj

InvokeProvider(r, outcome) ==
    /\ reqs[r].phase = "resolve"
    /\ Len(reqs[r].stack) > 1
    /\ Top(reqs[r]).i > Len(Top(reqs[r]).cp.resolvers)
    /\ Step(r, ProviderCalled(reqs[r], nobj, outcome))
    /\ nobj' = IF outcome = "ok" THEN nobj + 1 ELSE nobj

InvokeHandler(r, outcome) ==
    /\ reqs[r].phase = "resolve"
    /\ Len(reqs[r].stack) = 1
    /\ Top(reqs[r]).i > Len(Top(reqs[r]).cp.resolvers)
    /\ Step(r, HandlerCalled(reqs[r], outcome))
    /\ UNCHANGED nobj

MwAfter(r) ==
    /\ reqs[r].phase = "unwind"
    /\ Step(r, MiddlewareAfter(reqs[r]))
    /\ UNCHANGED nobj

Respond(r) ==
    /\ reqs[r].phase = "respond"
    /\ Step(r, Responded(reqs[r]))
    /\ UNCHANGED nobj

Except(r) ==
    /\ reqs[r].phase = "raised"
    /\ Step(r, Excepted(reqs[r], app))
    /\ UNCHANGED nobj

Release(r) ==
    /\ reqs[r].phase = "teardown"
    /\ Step(r, ReleaseNext(reqs[r]))
    /\ UNCHANGED nobj

QNext ==
    \/ \E r \in DOMAIN reqs, path \in RequestPaths : HandleHttp(r, path)
    \/ \E r \in DOMAIN reqs : MwBefore(r)
    \/ \E r \in DOMAIN reqs : ResolveParam(r)
    \/ \E r \in DOMAIN reqs, outcome \in {"ok", "Exception"} : InvokeProvider(r, outcome)
    \/ \E r \in DOMAIN reqs, outcome \in {"ok", "Exception", "HTTPError"} : InvokeHandler(r, outcome)
    \/ \E r \in DOMAIN reqs : MwAfter(r)
    \/ \E r \in DOMAIN reqs : Respond(r)
    \/ \E r \in DOMAIN reqs : Except(r)
    \/ \E r \in DOMAIN reqs : Release(r)

SpecReq == QInit /\ [][QNext]_vars

\* ------------------------------------------------- concurrent requests

ConcHandlers == {"hBA", "hMix", "hRR"}

\* one application, two requests in flight whose steps interleave
ConcInit ==
    \E h \in ConcHandlers, ucA \in BOOLEAN :
        /\ router = ConfiguredRouter(h, ucA, <<>>)
        /\ last = NoLast
        /\ app = NoApp
        /\ reqs = [r \in {1, 2} |-> NewRequest]
        /\ nobj = 0

ConcNext ==
    \/ \E r \in DOMAIN reqs : HandleHttp(r, Q_r4)
    \/ \E r \in DOMAIN reqs : ResolveParam(r)
    \/ \E r \in DOMAIN reqs, outcome \in {"ok", "Exception"} : InvokeProvider(r, outcome)
    \/ \E r \in DOMAIN reqs, outcome \in {"ok", "Exception"} : InvokeHandler(r, outcome)
    \/ \E r \in DOMAIN reqs : Respond(r)
    \/ \E r \in DOMAIN reqs : Except(r)
    \/ \E r \in DOMAIN reqs : Release(r)

SpecConc == ConcInit /\ [][ConcNext]_vars

\* ------------------------------------------------ extractors of a request

ExtractHandlers == {"hReq", "hDef", "hOpt", "hDefOpt", "hU3", "hOS", "hU3S"}

\* one route "/r/{x}" to a handler of extractor parameters; the request
\* carries a value for the extractors of `given`
XInit ==
    \E h \in ExtractHandlers, given \in SUBSET SourceKinds :
        /\ router = ConfiguredRouter(h, TRUE, <<>>)
        /\ last = NoLast
        /\ app = NoApp
        /\ reqs = [r \in {1} |-> [NewRequest EXCEPT !.given = given]]
        /\ nobj = 0

XNext ==
    \/ \E r \in DOMAIN reqs : HandleHttp(r, Q_r4)
    \/ \E r \in DOMAIN reqs : ResolveParam(r)
    \/ \E r \in DOMAIN reqs : InvokeHandler(r, "ok")
    \/ \E r \in DOMAIN reqs : Respond(r)
    \/ \E r \in DOMAIN reqs : Except(r)

SpecExtract == XInit /\ [][XNext]_vars

\* ------------------------------------------------- the resource register

Attrs == {"__aenter__", "__aexit__", "__enter__", "__exit__", "aclose", "close"}

\* a request with or without an exit stack (request.py 17, 28) and an
\* object with any of the cleanup attributes, about to be entered
ResInit ==
    \E attrs \in SUBSET Attrs, has_stack \in BOOLEAN :
        /\ router = NewRouter("r")
        /\ last = [op |-> "value", value |-> [Value(1, "-") EXCEPT !.attrs = attrs],
                   returned |-> NoObj]
        /\ app = NoApp
        /\ reqs = [r \in {1} |-> [NewRequest EXCEPT !.has_stack = has_stack]]
        /\ nobj = 1

\* handler.py 337: value = await enter_resource(request._exit_stack, value)
EnterResource(r) ==
    /\ last.op = "value"
    /\ LET er == enter_resource(reqs[r].exit_stack, reqs[r].has_stack, last.value)
       IN /\ reqs' = [reqs EXCEPT ![r].exit_stack = er.exit_stack]
          /\ last' = [last EXCEPT !.op = "enter_resource", !.returned = er.value]
    /\ UNCHANGED <<router, app, nobj>>

\* the block that owns the exit stack is left
ExitStack(r) ==
    /\ last.op = "enter_resource"
    /\ reqs[r].phase = "new"
    /\ reqs' = [reqs EXCEPT ![r] = Teardown(reqs[r])]
    /\ last' = [last EXCEPT !.op = "exit"]
    /\ UNCHANGED <<router, app, nobj>>

ResNext ==
    \/ \E r \in DOMAIN reqs : EnterResource(r)
    \/ \E r \in DOMAIN reqs : ExitStack(r)
    \/ \E r \in DOMAIN reqs : Release(r)

SpecResource == ResInit /\ [][ResNext]_vars

\* ----------------------------------------------------- the request body

\* the longest message sequence the transport delivers
MaxMessages == 3

\* the number of calls of body() followed
MaxCalls == 3

HttpRequest(body, more_body) == [type |-> "http.request", body |-> body, more_body |-> more_body]

Disconnect == [type |-> "http.disconnect", body |-> <<>>, more_body |-> FALSE]

\* a message of any other type
OtherMessage == [type |-> "http.other", body |-> <<"x">>, more_body |-> FALSE]

Messages ==
    {HttpRequest(<<"a">>, TRUE), HttpRequest(<<"b", "c">>, TRUE), HttpRequest(<<>>, TRUE),
     HttpRequest(<<"d">>, FALSE), HttpRequest(<<>>, FALSE), Disconnect, OtherMessage}

RECURSIVE SeqsUpTo(_, _)
\* the sequences over S of length n at most
SeqsUpTo(S, n) ==
    IF n = 0 THEN {<<>>}
    ELSE SeqsUpTo(S, n - 1) \cup {Append(t, x) : t \in SeqsUpTo(S, n - 1), x \in S}

RECURSIVE Join(_)
\* b"".join(chunks)
Join(chunks) == IF chunks = <<>> THEN <<>> ELSE Head(chunks) \o Join(Tail(chunks))

\* request.py 23: self._body is None
NoBody == [set |-> FALSE, bytes |-> <<>>]

\* request.py 12-29: the object reads from `transport`, of which `consumed`
\* messages were taken; returned lists what each finished call of body()
\* gave and how many messages it took
NewReader(transport) ==
    [transport |-> transport, consumed |-> 0, _body |-> NoBody, reading |-> FALSE,
     chunks |-> <<>>, taken |-> 0, returned |-> <<>>]

\* a test that takes an empty body for no body
BodyCachedWhenNonEmpty(q) == q._body.set /\ q._body.bytes # <<>>

\* request.py 57
BodyCached(q) == q._body.set

\* request.py 72-73
BodyFinished(q) ==
    [q EXCEPT !._body = [set |-> TRUE, bytes |-> Join(q.chunks)],
              !.reading = FALSE,
              !.returned = Append(@, [value |-> Join(q.chunks), consumed |-> q.taken])]

\* request.py 56-59: body() up to its first await
body_begin(q) ==
    IF BodyCached(q)
    THEN [q EXCEPT !.returned = Append(@, [value |-> q._body.bytes, consumed |-> 0])]
    ELSE [q EXCEPT !.reading = TRUE, !.chunks = <<>>, !.taken = 0]

\* request.py 64-71: message is an http.request
BodyChunk(q, message) ==
    IF message.more_body
    THEN [q EXCEPT !.chunks = IF message.body # <<>> THEN Append(@, message.body) ELSE @]
    ELSE BodyFinished([q EXCEPT !.chunks = IF message.body # <<>>
                                            THEN Append(@, message.body) ELSE @])

\* request.py 60-71: one turn of the loop, on the message receive() gave
BodyMessage(q, message) ==
    IF message.type = "http.disconnect" THEN BodyFinished(q)
    ELSE IF message.type # "http.request" THEN q
    ELSE BodyChunk(q, message)

body_receive(q) ==
    BodyMessage([q EXCEPT !.consumed = @ + 1, !.taken = @ + 1], q.transport[q.consumed + 1])

BInit ==
    \E transport \in SeqsUpTo(Messages, MaxMessages) :
        /\ router = NewRouter("r")
        /\ last = NoLast
        /\ app = NoApp
        /\ reqs = [r \in {1} |-> NewReader(transport)]
        /\ nobj = 0

\* a caller awaits request.body()
BodyCall(r) ==
    /\ ~reqs[r].reading
    /\ Len(reqs[r].returned) < MaxCalls
    /\ Step(r, body_begin(reqs[r]))
    /\ UNCHANGED nobj

\* the transport delivers the next message to the running call
BodyReceive(r) ==
    /\ reqs[r].reading
    /\ reqs[r].consumed < Len(reqs[r].transport)
    /\ Step(r, body_receive(reqs[r]))
    /\ UNCHANGED nobj

BNext ==
    \/ \E r \in DOMAIN reqs : BodyCall(r)
    \/ \E r \in DOMAIN reqs : BodyReceive(r)

SpecBody == BInit /\ [][BNext]_vars

\* ------------------------------------------- compiling, one call at a time

\* the depth of nested compile_handler calls at which the interpreter gives up
MaxDepth == 5

\* the routes registered while providers come and go
MaxCycleRoutes == 2

\* handler.py 48-58: a call of compile_handler(fn): the next parameter to
\* compile and the resolvers so far
CFrame(fn) == [fn |-> fn, i |-> 1, acc |-> <<>>]

\* handler.py 132-161, 276-278: the provider whose compiled form the
\* resolver of p closes over, "-" when there is none
ProviderFor(p, providers) ==
    IF p.kind = "depends" THEN p.provider
    ELSE IF p.kind = "type" /\ p.key \in DOMAIN providers THEN providers[p.key].provider
    ELSE "-"

\* handler.py 143-161: the cache key and cache flag of that resolver
DepKeyOf(p) == IF p.kind = "depends" THEN <<"depends", p.provider>> ELSE <<"type", p.key>>

DepCached(p, providers) ==
    IF p.kind = "depends" THEN p.use_cache ELSE providers[p.key].use_cache

CompileState(stack, cache, err, compiled) ==
    [stack |-> stack, cache |-> cache, err |-> err, compiled |-> compiled]

\* handler.py 72, 321-341: the innermost compile_handler call returned; the
\* provider is cached and the caller goes on to its next parameter
CompileReturned(stack, providers, cache) ==
    LET n == Len(stack)
        compiled == [fn |-> stack[n].fn, resolvers |-> stack[n].acc]
    IN IF n = 1 THEN CompileState(<<>>, cache, NoErr, compiled)
       ELSE CompileState(
               [SubSeq(stack, 1, n - 1) EXCEPT
                   ![n - 1].i = @ + 1,
                   ![n - 1].acc =
                       Append(@, Resolver(Signature(stack[n - 1].fn)[stack[n - 1].i].name, "dep",
                                          DepKeyOf(Signature(stack[n - 1].fn)[stack[n - 1].i]),
                                          DepCached(Signature(stack[n - 1].fn)[stack[n - 1].i],
                                                    providers),
                                          compiled))],
               Put(cache, stack[n].fn, compiled), NoErr, NoCompiled)

\* handler.py 59-70: r is what _compile_param gave without a nested call
CompileParamDone(stack, r) ==
    IF r.err # NoErr THEN CompileState(<<>>, r.cache, r.err, NoCompiled)
    ELSE CompileState([stack EXCEPT ![Len(stack)].i = @ + 1,
                                    ![Len(stack)].acc = Append(@, r.res)],
                      r.cache, NoErr, NoCompiled)

\* handler.py 321-326: compile_handler(provider) is called from inside the
\* running call; past the interpreter's limit the call raises RecursionError
CompileCall(stack, cache, provider) ==
    IF Len(stack) >= MaxDepth THEN CompileState(<<>>, cache, "RecursionError", NoCompiled)
    ELSE CompileState(Append(stack, CFrame(provider)), cache, NoErr, NoCompiled)

\* handler.py 48-72 and 306-341, one call or return at a time
CompileStep(stack, providers, cache) ==
    LET t == stack[Len(stack)]
    IN IF t.i > Len(Signature(t.fn)) THEN CompileReturned(stack, providers, cache)
       ELSE IF ProviderFor(Signature(t.fn)[t.i], providers) \in DOMAIN cache \cup {"-"}
       THEN CompileParamDone(stack, _compile_param(Signature(t.fn)[t.i], providers, cache))
       ELSE CompileCall(stack, cache, ProviderFor(Signature(t.fn)[t.i], providers))

\* the dependency keys a function takes as parameters
Takes(fn) ==
    {Signature(fn)[i].key : i \in {j \in 1..Len(Signature(fn)) : Signature(fn)[j].kind = "type"}}

\* the registered keys that the providers of the keys of S take, and so on
RECURSIVE Reach(_, _)
Reach(S, providers) ==
    LET next == S \cup UNION {Takes(providers[k].provider) \cap DOMAIN providers : k \in S}
    IN IF next = S THEN S ELSE Reach(next, providers)

\* the provider graph under fn contains a provider that takes, directly or
\* through other providers, its own key
HasCycle(fn, providers) ==
    \E k \in Reach(Takes(fn) \cap DOMAIN providers, providers) :
        k \in Reach(Takes(providers[k].provider) \cap DOMAIN providers, providers)

CycleProviders == {<<"A", "pAc">>, <<"B", "pBc">>, <<"B", "pBd">>, <<"S", "pS">>}

CycleRoutes == {RouteInput(P_as, "hA", <<"GET">>), RouteInput(P_b, "hB", <<"GET">>),
                RouteInput(P_p, "hS", <<"GET">>)}

NoCompiling == [op |-> "-", err |-> NoErr, handler |-> "-", path |-> <<>>, stack |-> <<>>,
                cyclic |-> FALSE, fresh |-> TRUE, depth |-> 0]

CInit ==
    /\ router = NewRouter("r")
    /\ last = NoCompiling
    /\ app = NoApp
    /\ reqs = <<>>
    /\ nobj = 0

CProvide(key, provider) ==
    /\ last.op # "compiling"
    /\ router' = provide(router, key, provider, TRUE).R
    /\ last' = [NoCompiling EXCEPT !.op = "provide", !.err = provide(router, key, provider, TRUE).err]
    /\ UNCHANGED qvars

\* router.py 95-125: add_route up to the call of compile_handler
CBeginAddRoute(path, handler) ==
    /\ last.op # "compiling"
    /\ Len(router.route_specs) < MaxCycleRoutes
    /\ handler \notin DOMAIN router.compiled_cache
    /\ router' = WithNodesAndSpec(router, path, handler, <<"GET">>,
                                  DefaultMiddlewares(router, <<"GET">>, <<"-", "-">>))
    /\ last' = [NoCompiling EXCEPT
                    !.op = "compiling", !.handler = handler, !.path = path,
                    !.stack = <<CFrame(handler)>>, !.depth = 1,
                    !.cyclic = HasCycle(handler, router.providers),
                    !.fresh = \A k \in Reach(Takes(handler) \cap DOMAIN router.providers,
                                               router.providers) :
                                 router.providers[k].provider \notin DOMAIN router.compiled_cache]
    /\ UNCHANGED qvars

\* the compile goes on by one call or return
CCompileStep ==
    /\ last.op = "compiling"
    /\ LET c == CompileStep(last.stack, router.providers, router.compiled_cache)
       IN c.stack # <<>>
          /\ router' = [router EXCEPT !.compiled_cache = c.cache]
          /\ last' = [last EXCEPT !.stack = c.stack,
                                  !.depth = IF Len(c.stack) > @ THEN Len(c.stack) ELSE @]
    /\ UNCHANGED qvars

\* router.py 125-146: compile_handler returned or raised, add_route ends
CEndAddRoute ==
    /\ last.op = "compiling"
    /\ LET c == CompileStep(last.stack, router.providers, router.compiled_cache)
           o == AddRouteCompiled(router, last.path, last.handler, <<"GET">>,
                                 DefaultMiddlewares(router, <<"GET">>, <<"-", "-">>),
                                 CachedFrom(last.handler, CompileOut(c.err, c.compiled, c.cache)))
       IN c.stack = <<>>
          /\ router' = o.R
          /\ last' = [last EXCEPT !.op = "add_route", !.err = o.err, !.stack = <<>>]
    /\ UNCHANGED qvars

CycleNext ==
    \/ \E kp \in CycleProviders : CProvide(kp[1], kp[2])
    \/ \E r \in CycleRoutes : CBeginAddRoute(r.path, r.handler)
    \/ CCompileStep
    \/ CEndAddRoute

SpecCycle == CInit /\ [][CycleNext]_vars

\* ------------------------------------------- errors and the response sent

ErrClasses == {"KeyError", "LookupError", "Exception", "HTTPError"}

\* what a registered exception handler does: returns a result or raises
HandlerOutcomes == Results \cup {"raise"}

ErrPaths == {Q_r4, Q_rz, Q_q}

\* BardApp(router) of one route "/r/{x}" to hBx, with or without middlewares
EInit ==
    \E mw \in {[global |-> <<>>, route |-> <<>>], [global |-> <<"A">>, route |-> <<"R">>]} :
        /\ router = ConfiguredRouter("hBx", TRUE, mw.route)
        /\ last = NoLast
        /\ app = [http_middlewares |-> mw.global, exception_handlers |-> <<>>, ws_middlewares |-> <<>>]
        /\ reqs = [r \in {1} |-> NewRequest]
        /\ nobj = 0

\* app.py 43-48: the handler registered for a class is named after it
add_exception_handler(A, cls) ==
    [A EXCEPT !.exception_handlers = Put(@, cls, cls)]

AddExceptionHandler(cls) ==
    /\ \A r \in DOMAIN reqs : reqs[r].phase = "new"
    /\ app' = add_exception_handler(app, cls)
    /\ UNCHANGED <<router, last, reqs, nobj>>

MwRaise(r, outcome) ==
    /\ reqs[r].phase = "mw"
    /\ Step(r, MiddlewareRaised(reqs[r], outcome))
    /\ UNCHANGED nobj

InvokeExceptionHandler(r, outcome) ==
    /\ reqs[r].phase = "exc_handler"
    /\ Step(r, ExceptionHandled(reqs[r], outcome))
    /\ UNCHANGED nobj

ENext ==
    \/ \E cls \in ErrClasses : AddExceptionHandler(cls)
    \/ \E r \in DOMAIN reqs, path \in ErrPaths : HandleHttp(r, path)
    \/ \E r \in DOMAIN reqs : MwBefore(r)
    \/ \E r \in DOMAIN reqs, outcome \in {"KeyError", "HTTPError"} : MwRaise(r, outcome)
    \/ \E r \in DOMAIN reqs : ResolveParam(r)
    \/ \E r \in DOMAIN reqs, outcome \in {"ok", "KeyError", "HTTPError"} :
          InvokeProvider(r, outcome)
    \/ \E r \in DOMAIN reqs, outcome \in Results \cup {"KeyError", "HTTPError"} :
          InvokeHandler(r, outcome)
    \/ \E r \in DOMAIN reqs : MwAfter(r)
    \/ \E r \in DOMAIN reqs : Respond(r)
    \/ \E r \in DOMAIN reqs : Except(r)
    \/ \E r \in DOMAIN reqs, outcome \in HandlerOutcomes : InvokeExceptionHandler(r, outcome)
    \/ \E r \in DOMAIN reqs : Release(r)

SpecErrors == EInit /\ [][ENext]_vars

\* ------------------------------------------------------------ websockets

\* the calls on the WebSocket object that a handler body makes
MaxWsCalls == 3

WsMessage(type, code) == [type |-> type, code |-> code]

\* websocket.py 58-67
ws_accept(q) ==
    IF q.accepted \/ q.closed THEN q
    ELSE [q EXCEPT !.msgs = Append(@, WsMessage("websocket.accept", 0)), !.accepted = TRUE]

\* websocket.py 69-75: close() up to the point where its send is awaited
ws_close_begin(q, code) ==
    IF q.closed THEN q
    ELSE [q EXCEPT !.msgs = Append(@, WsMessage("websocket.close", code)), !.closing = @ + 1]

\* websocket.py 76: the awaited send returned
ws_close_end(q) == [q EXCEPT !.closed = TRUE, !.closing = @ - 1]

\* websocket.py 69-76: a close() that nothing else runs beside
ws_close(q, code) == IF q.closed THEN q ELSE ws_close_end(ws_close_begin(q, code))

\* websocket.py 81-82
ws_send_text(q) == [q EXCEPT !.msgs = Append(@, WsMessage("websocket.send", 0))]

\* router.py 71-72
add_websocket_middleware(R, mws) == [R EXCEPT !.ws_middlewares = @ \o mws]

\* app.py 215
AllWsMiddlewares(A, R, routed) == A.ws_middlewares \o RouteMiddlewares(R, routed)

\* a handshake that accepts before it looks for the route
WsStartedAcceptFirst(q, A, R, path, m) ==
    IF ~m.routed.present
    THEN Teardown(ws_close(ws_accept([q EXCEPT !.path = path]), 1000))
    ELSE Descend([ws_accept(q) EXCEPT !.method = "WEBSOCKET", !.path = path, !.phase = "mw",
                                      !.routed = m.routed, !.params = m.params,
                                      !.chain = AllWsMiddlewares(A, R, m.routed), !.j = 1])

\* app.py 114-122: m is what Router.match gave for a connecting client
WsStarted(q, A, R, path, m) ==
    IF ~m.routed.present
    THEN Teardown(ws_close([q EXCEPT !.path = path], 1000))
    ELSE Descend([ws_accept(q) EXCEPT !.method = "WEBSOCKET", !.path = path, !.phase = "mw",
                                      !.routed = m.routed, !.params = m.params,
                                      !.chain = AllWsMiddlewares(A, R, m.routed), !.j = 1])

\* app.py 109-122: first is the type of the first message received
_handle_websocket(q, A, R, first, path) ==
    IF first # "websocket.connect" THEN [q EXCEPT !.first = first, !.phase = "done"]
    ELSE WsStarted([q EXCEPT !.first = first], A, R, path, match(R, "WEBSOCKET", path))

\* the handler body calls accept(), close(code) or send_text() on the object
WsCalled(q, call) ==
    LET q1 == [Log(q, Event("call", Top(q).cp.fn, call.code, <<"ws", call.op>>, FALSE, NoObj))
                 EXCEPT !.calls = @ + 1]
    IN CASE call.op = "accept" -> ws_accept(q1)
         [] call.op = "close"  -> ws_close_begin(q1, call.code)
         [] OTHER              -> ws_send_text(q1)

\* app.py 122, 129-131: the dispatch returned
WsReturned(q) == Teardown(ws_close(q, 1000))

\* app.py 123-131 and 199-203: the dispatch raised; every exception class
\* goes through the table
WsExcepted(q, A) ==
    IF FirstRegistered(A.exception_handlers, Mro(q.exc.cls), 1) = "-"
    THEN Teardown(ws_close(ws_close(q, 1011), 1000))
    ELSE [q EXCEPT !.phase = "exc_handler",
                   !.found = FirstRegistered(A.exception_handlers, Mro(q.exc.cls), 1)]

\* app.py 124-131 and 204-207: the registered handler ran
WsExceptionHandled(q, outcome) ==
    LET q1 == [Log(q, Event("exc_handler", q.found, 0, NoKey, FALSE, NoObj))
                 EXCEPT !.handled = outcome]
    IN CASE outcome = "raise" -> Teardown(ws_close([q1 EXCEPT !.escaped = TRUE], 1000))
         [] outcome = "None"  -> Teardown(ws_close(ws_close(q1, 1011), 1000))
         [] OTHER             -> Teardown(ws_close(q1, 1000))

WsCalls == {[op |-> "accept", code |-> 0], [op |-> "close", code |-> 4000],
            [op |-> "close", code |-> 1011], [op |-> "send_text", code |-> 0]}

FirstMessages == {"websocket.connect", "websocket.receive", "websocket.disconnect"}

WsPaths == {Q_r4, Q_q}

\* Router(); provide(A); websocket("/r/{x}", hW); get("/q", h0); with or
\* without websocket middlewares on the app and on the router
WsInit ==
    \E mws \in {<<>>, <<"W">>} :
        /\ router = compile(add_websocket_middleware(
                        add_route(add_route(provide(NewRouter("r"), "A", "pA", TRUE).R,
                                            P_rx, "hW", <<"WEBSOCKET">>, <<"-", "-">>).R,
                                  Q_q, "h0", <<"GET">>, <<"-", "-">>).R,
                        mws)).R
        /\ last = NoLast
        /\ app = [NoApp EXCEPT !.ws_middlewares = mws]
        /\ reqs = [r \in {1} |-> NewRequest]
        /\ nobj = 0

HandleWebsocket(r, first, path) ==
    /\ reqs[r].phase = "new"
    /\ Step(r, _handle_websocket(reqs[r], app, router, first, path))
    /\ UNCHANGED nobj

WsCall(r, call) ==
    /\ reqs[r].phase = "resolve"
    /\ Len(reqs[r].stack) = 1
    /\ Top(reqs[r]).i > Len(Top(reqs[r]).cp.resolvers)
    /\ reqs[r].calls < MaxWsCalls
    /\ Step(r, WsCalled(reqs[r], call))
    /\ UNCHANGED nobj

\* a close() of the handler body gets past its awaited send
WsCloseSent(r) ==
    /\ reqs[r].phase = "resolve"
    /\ reqs[r].closing > 0
    /\ Step(r, ws_close_end(reqs[r]))
    /\ UNCHANGED nobj

\* the handler body returns or raises once the calls it made are over
WsInvokeHandler(r, outcome) ==
    /\ reqs[r].closing = 0
    /\ InvokeHandler(r, outcome)

WsReturn(r) ==
    /\ reqs[r].phase = "respond"
    /\ Step(r, WsReturned(reqs[r]))
    /\ UNCHANGED nobj

WsExcept(r) ==
    /\ reqs[r].phase = "raised"
    /\ Step(r, WsExcepted(reqs[r], app))
    /\ UNCHANGED nobj

WsInvokeExceptionHandler(r, outcome) ==
    /\ reqs[r].phase = "exc_handler"
    /\ Step(r, WsExceptionHandled(reqs[r], outcome))
    /\ UNCHANGED nobj

WsNext ==
    \/ \E cls \in {"KeyError", "Exception"} : AddExceptionHandler(cls)
    \/ \E r \in DOMAIN reqs, first \in FirstMessages, path \in WsPaths :
          HandleWebsocket(r, first, path)
    \/ \E r \in DOMAIN reqs : MwBefore(r)
    \/ \E r \in DOMAIN reqs : MwRaise(r, "KeyError")
    \/ \E r \in DOMAIN reqs : ResolveParam(r)
    \/ \E r \in DOMAIN reqs, outcome \in {"ok", "KeyError"} : InvokeProvider(r, outcome)
    \/ \E r \in DOMAIN reqs, call \in WsCalls : WsCall(r, call)
    \/ \E r \in DOMAIN reqs : WsCloseSent(r)
    \/ \E r \in DOMAIN reqs, outcome \in {"ok", "KeyError", "HTTPError"} :
          WsInvokeHandler(r, outcome)
    \/ \E r \in DOMAIN reqs : MwAfter(r)
    \/ \E r \in DOMAIN reqs : WsReturn(r)
    \/ \E r \in DOMAIN reqs : WsExcept(r)
    \/ \E r \in DOMAIN reqs, outcome \in {"ok", "None", "raise"} :
          WsInvokeExceptionHandler(r, outcome)
    \/ \E r \in DOMAIN reqs : Release(r)

SpecWs == WsInit /\ [][WsNext]_vars

\* ---------------------------------------------------------------- lifespan

LifespanMessage(type) == [type |-> type]

\* BardApp(router, lifespan): has is whether a lifespan was given
LifespanApp(has) ==
    [http_middlewares |-> <<>>, exception_handlers |-> <<>>, ws_middlewares |-> <<>>,
     lifespan |-> has, _lifespan_cm |-> FALSE, _lifespan_active |-> FALSE]

Received(q, type) == Log(q, Event("receive", type, 0, NoKey, FALSE, NoObj))

Sent(q, type) == [q EXCEPT !.msgs = Append(@, LifespanMessage(type))]

\* app.py 98 and 104-105: the startup is over
startup_complete(q) == [Sent(q, "lifespan.startup.complete") EXCEPT !.phase = "await_shutdown"]

\* app.py 90-101 and 150-152: the first message of the scope, up to the point
\* where the context manager is entered
_handle_lifespan(q, A, type) ==
    IF type # "lifespan.startup" THEN [Received(q, type) EXCEPT !.first = type, !.phase = "done"]
    ELSE IF ~A.lifespan \/ A._lifespan_active
         THEN startup_complete([Received(q, type) EXCEPT !.first = type])
         ELSE [Received(q, type) EXCEPT !.first = type, !.phase = "entering"]

\* app.py 100-105 and 154-155: __aenter__ returned or raised
_lifespan_startup(q, outcome) ==
    CASE outcome = "ok"        -> startup_complete(q)
      [] outcome = "Exception" -> [Sent(q, "lifespan.startup.failed") EXCEPT !.phase = "done"]
      [] OTHER                 -> [q EXCEPT !.phase = "done", !.escaped = TRUE]

\* a shutdown that does not look at the message it received
_await_shutdown_any(q, A, type) ==
    IF ~A._lifespan_active \/ ~A._lifespan_cm
    THEN [Sent(Received(q, type), "lifespan.shutdown.complete") EXCEPT !.phase = "done"]
    ELSE [Received(q, type) EXCEPT !.phase = "exiting"]

\* app.py 133-138 and 157-159: the second message of the scope, up to the
\* point where the context manager is left
_await_shutdown(q, A, type) ==
    IF type # "lifespan.shutdown" THEN [Received(q, type) EXCEPT !.phase = "done"]
    ELSE IF ~A._lifespan_active \/ ~A._lifespan_cm
         THEN [Sent(Received(q, type), "lifespan.shutdown.complete") EXCEPT !.phase = "done"]
         ELSE [Received(q, type) EXCEPT !.phase = "exiting"]

\* app.py 137-142 and 160-161: __aexit__ returned or raised
_lifespan_shutdown(q, outcome) ==
    CASE outcome = "ok"        -> [Sent(q, "lifespan.shutdown.complete") EXCEPT !.phase = "done"]
      [] outcome = "Exception" -> [Sent(q, "lifespan.shutdown.failed") EXCEPT !.phase = "done"]
      [] OTHER                 -> [q EXCEPT !.phase = "done", !.escaped = TRUE]

LifespanReceived == {"lifespan.startup", "lifespan.shutdown", "other"}

CmOutcomes == {"ok", "Exception", "BaseException"}

\* an application with or without a lifespan, and two lifespan scopes
LifeInit ==
    \E has \in BOOLEAN :
        /\ router = compile(NewRouter("r")).R
        /\ last = NoLast
        /\ app = LifespanApp(has)
        /\ reqs = [r \in {1, 2} |-> NewRequest]
        /\ nobj = 0

HandleLifespan(r, type) ==
    /\ reqs[r].phase = "new"
    /\ reqs' = [reqs EXCEPT ![r] = _handle_lifespan(reqs[r], app, type)]
    /\ app' = IF reqs'[r].phase = "entering" THEN [app EXCEPT !._lifespan_cm = TRUE] ELSE app
    /\ UNCHANGED <<router, last, nobj>>

LifespanEntered(r, outcome) ==
    /\ reqs[r].phase = "entering"
    /\ reqs' = [reqs EXCEPT ![r] = _lifespan_startup(reqs[r], outcome)]
    /\ app' = IF outcome = "ok" THEN [app EXCEPT !._lifespan_active = TRUE] ELSE app
    /\ UNCHANGED <<router, last, nobj>>

AwaitShutdown(r, type) ==
    /\ reqs[r].phase = "await_shutdown"
    /\ reqs' = [reqs EXCEPT ![r] = _await_shutdown(reqs[r], app, type)]
    /\ UNCHANGED <<router, last, app, nobj>>

LifespanExited(r, outcome) ==
    /\ reqs[r].phase = "exiting"
    /\ reqs' = [reqs EXCEPT ![r] = _lifespan_shutdown(reqs[r], outcome)]
    /\ app' = IF outcome = "ok" THEN [app EXCEPT !._lifespan_active = FALSE] ELSE app
    /\ UNCHANGED <<router, last, nobj>>

LifeNext ==
    \/ \E r \in DOMAIN reqs, type \in LifespanReceived : HandleLifespan(r, type)
    \/ \E r \in DOMAIN reqs, outcome \in CmOutcomes : LifespanEntered(r, outcome)
    \/ \E r \in DOMAIN reqs, type \in LifespanReceived : AwaitShutdown(r, type)
    \/ \E r \in DOMAIN reqs, outcome \in CmOutcomes : LifespanExited(r, outcome)

SpecLifespan == LifeInit /\ [][LifeNext]_vars

\* ---------------------------------------- leaving the scope of a request

\* BardApp(router) of one route "/r/{x}" to a handler taking a context
\* manager (B) and an object with close() (A)
ExitInit ==
    /\ router = ConfiguredRouter("hBA", TRUE, <<>>)
    /\ last = NoLast
    /\ app = NoApp
    /\ reqs = [r \in {1} |-> NewRequest]
    /\ nobj = 0

ExitNext ==
    \/ \E cls \in {"KeyError", "Exception"} : AddExceptionHandler(cls)
    \/ \E r \in DOMAIN reqs, path \in {Q_r4, Q_q} : HandleHttp(r, path)
    \/ \E r \in DOMAIN reqs : ResolveParam(r)
    \/ \E r \in DOMAIN reqs, outcome \in {"ok", "KeyError"} : InvokeProvider(r, outcome)
    \/ \E r \in DOMAIN reqs, outcome \in {"ok", "None", "KeyError", "HTTPError", "CancelledError"} :
          InvokeHandler(r, outcome)
    \/ \E r \in DOMAIN reqs : Respond(r)
    \/ \E r \in DOMAIN reqs : Except(r)
    \/ \E r \in DOMAIN reqs, outcome \in {"ok", "None", "raise"} :
          InvokeExceptionHandler(r, outcome)
    \/ \E r \in DOMAIN reqs : Release(r)

SpecExit == ExitInit /\ [][ExitNext]_vars

\* ------------------------------------- registration order before compile()

\* handlers whose one parameter depends on A by its type: plainly, with a
\* default value, with an optional type, and through the provider of B
OrderRoutes ==
    {RouteInput(P_as, "hA", <<"GET">>),
     RouteInput(P_as, "hDA", <<"POST">>),
     RouteInput(P_b, "hOA", <<"GET">>),
     RouteInput(P_b, "hB", <<"POST">>)}

\* provide() before the router is finalized
OProvide(key) ==
    /\ ~router.compiled_once
    /\ RProvide(key, TRUE)

OrderNext ==
    \/ \E key \in DepKeys : OProvide(key)
    \/ \E r \in OrderRoutes : RAddRoute(r.path, r.handler, r.methods)
    \/ RCompile

SpecOrder == RInit /\ [][OrderNext]_vars

\* ----------------------------------------------------- add_route that fails

\* add_route calls that can fail: a malformed path, the same (method, path)
\* twice, several methods of which a later one is taken, a handler whose
\* provider is missing, and a handler that cannot be compiled
FailingRoutes ==
    {RouteInput(P_bad, "h0", <<"GET">>),
     RouteInput(P_b, "h0", <<"HEAD">>),
     RouteInput(P_b, "hx", <<"GET", "HEAD">>),
     RouteInput(P_as, "hA", <<"GET">>),
     RouteInput(P_as, "hint", <<"POST">>)}

FailNext ==
    \/ \E key \in {"A"} : RProvide(key, TRUE)
    \/ \E r \in FailingRoutes : RAddRoute(r.path, r.handler, r.methods)
    \/ RCompile
    \/ \E method \in MatchMethods, path \in {P_as, P_b} : RMatch(method, path)

SpecAddRoute == RInit /\ [][FailNext]_vars

\* ------------------------------------------------- a router after compile()

FinalPrefixes == {Pre_none, Pre_p}

\* every operation of the router, failing ones included, in any order
FinalNext ==
    \/ \E key \in DepKeys : RProvide(key, TRUE)
    \/ \E r \in FailingRoutes : RAddRoute(r.path, r.handler, r.methods)
    \/ \E other \in SubRouters, prefix \in FinalPrefixes : RInclude(other, prefix)
    \/ RCompile

SpecFinal == RInit /\ [][FinalNext]_vars

\* -------------------------------------------------- scopes of both kinds

\* the method strings an http scope carries
HttpMethods == {"GET", "HEAD", "WEBSOCKET", "websocket"}

\* app.py 48-60: the scope type selects the entry point; a connection is
\* known by its first message
IsHttp(q) == q.first = "-"

\* Router(); provide(A); websocket("/r/{x}", hW); get("/q", h0); BardApp(router)
ScopeInit ==
    /\ router = compile(add_route(add_route(provide(NewRouter("r"), "A", "pA", TRUE).R,
                                            P_rx, "hW", <<"WEBSOCKET">>, <<"-", "-">>).R,
                                  Q_q, "h0", <<"GET">>, <<"-", "-">>).R).R
    /\ last = NoLast
    /\ app = NoApp
    /\ reqs = [r \in {1, 2} |-> NewRequest]
    /\ nobj = 0

HandleHttpMethod(r, method, path) ==
    /\ reqs[r].phase = "new"
    /\ Step(r, _handle_http(reqs[r], app, router, method, path))
    /\ UNCHANGED nobj

HttpRespond(r) == IsHttp(reqs[r]) /\ Respond(r)

HttpExcept(r) == IsHttp(reqs[r]) /\ Except(r)

WsScopeReturn(r) == ~IsHttp(reqs[r]) /\ WsReturn(r)

WsScopeExcept(r) == ~IsHttp(reqs[r]) /\ WsExcept(r)

ScopeNext ==
    \/ \E r \in DOMAIN reqs, method \in HttpMethods, path \in WsPaths :
          HandleHttpMethod(r, method, path)
    \/ \E r \in DOMAIN reqs, path \in WsPaths : HandleWebsocket(r, "websocket.connect", path)
    \/ \E r \in DOMAIN reqs : ResolveParam(r)
    \/ \E r \in DOMAIN reqs : InvokeProvider(r, "ok")
    \/ \E r \in DOMAIN reqs, outcome \in {"ok", "KeyError"} : InvokeHandler(r, outcome)
    \/ \E r \in DOMAIN reqs : HttpRespond(r)
    \/ \E r \in DOMAIN reqs : HttpExcept(r)
    \/ \E r \in DOMAIN reqs : WsScopeReturn(r)
    \/ \E r \in DOMAIN reqs : WsScopeExcept(r)
    \/ \E r \in DOMAIN reqs : Release(r)

SpecScopes == ScopeInit /\ [][ScopeNext]_vars

\* ---------------------------------------- a sub-router that keeps changing

\* what is done to the sub-router: routes, a provider, router-level middleware
SubRoutes == {RouteInput(P_b, "h0", <<"GET">>), RouteInput(P_as, "hA", <<"GET">>)}

SubMiddlewares == {"C", "D"}

\* router.py 61 and 90-93: the middleware list of a route spec is the list
\* object of the router that registered it; every router that holds the
\* reference reads what the owner has appended since
Shared(R, other) ==
    IF <<"http", other.id>> \in DOMAIN R.lists THEN WithLists(R, other) ELSE R

\* parent = Router(); sub = Router()
SnapInit ==
    /\ router = NewRouter("r")
    /\ last = [op |-> "-", err |-> NoErr, sub |-> NewRouter("c"), included |-> FALSE]
    /\ app = NoApp
    /\ reqs = <<>>
    /\ nobj = 0

SubAddRoute(path, handler, methods) ==
    /\ Len(last.sub.route_specs) < MaxRouteSpecs
    /\ LET o == add_route(last.sub, path, handler, methods, <<"-", "-">>)
       IN /\ last' = [last EXCEPT !.op = "sub.add_route", !.err = o.err, !.sub = o.R]
          /\ router' = router
    /\ UNCHANGED qvars

SubProvide(key) ==
    /\ LET o == provide(last.sub, key, ProviderOf(key), TRUE)
       IN /\ last' = [last EXCEPT !.op = "sub.provide", !.err = o.err, !.sub = o.R]
          /\ router' = router
    /\ UNCHANGED qvars

SubAddMiddleware(mw) ==
    /\ \A i \in DOMAIN last.sub.http_middlewares : last.sub.http_middlewares[i] # mw
    /\ last' = [last EXCEPT !.op = "sub.add_middleware", !.err = NoErr,
                            !.sub = add_middleware(@, <<mw>>)]
    /\ router' = Shared(router, last'.sub)
    /\ UNCHANGED qvars

ParentInclude(prefix) ==
    /\ ~last.included
    /\ Len(router.route_specs) < MaxRouteSpecs
    /\ LET o == include_router(router, last.sub, prefix)
       IN /\ router' = o.R
          /\ last' = [last EXCEPT !.op = "include", !.err = o.err,
                                  !.included = (o.err = NoErr)]
    /\ UNCHANGED qvars

ParentProvide(key) ==
    /\ LET o == provide(router, key, ProviderOf(key), TRUE)
       IN /\ router' = o.R
          /\ last' = [last EXCEPT !.op = "provide", !.err = o.err]
    /\ UNCHANGED qvars

ParentCompile ==
    /\ LET o == compile(router)
       IN /\ router' = o.R
          /\ last' = [last EXCEPT !.op = "compile", !.err = o.err]
    /\ UNCHANGED qvars

SnapNext ==
    \/ \E r \in SubRoutes : SubAddRoute(r.path, r.handler, r.methods)
    \/ \E key \in {"A"} : SubProvide(key)
    \/ \E mw \in SubMiddlewares : SubAddMiddleware(mw)
    \/ \E prefix \in {Pre_none, Pre_p} : ParentInclude(prefix)
    \/ \E key \in {"A"} : ParentProvide(key)
    \/ ParentCompile

SpecSnapshot == SnapInit /\ [][SnapNext]_vars

\* ------------------------------------------------ properties of a request

Reverse(s) == [i \in 1..Len(s) |-> s[Len(s) + 1 - i]]

IsPrefix(s, t) == Len(s) <= Len(t) /\ s = SubSeq(t, 1, Len(s))

\* positions of the events of one kind in a trace
At(tr, e) == {i \in 1..Len(tr) : tr[i].e = e}

\* the identities of the objects of the events of one kind, in trace order
ObjIds(tr, e) ==
    LET s == SelectSeq(tr, LAMBDA x : x.e = e) IN [i \in 1..Len(s) |-> s[i].obj.id]

KeysIn(tr) == {tr[i].key : i \in 1..Len(tr)} \ {NoKey}

\* provider bodies entered on behalf of cache-enabled / cache-disabled resolvers
Invokes(tr, key, use_cache) ==
    {i \in At(tr, "invoke") : tr[i].key = key /\ tr[i].use_cache = use_cache}

\* resolutions of a key that gave a value to a parameter
Resolutions(tr, key, use_cache) ==
    {i \in At(tr, "dep") : tr[i].key = key /\ tr[i].use_cache = use_cache}

\* C2: within one request the provider of a cache-enabled key runs exactly
\* once, every cache-enabled resolution of the key (by a handler parameter or
\* by a parameter of a nested provider) gives the identical object, and that
\* object is the one the first resolution stored in the request cache.
C2_CachedOncePerRequest ==
    \A r \in DOMAIN reqs : \A key \in KeysIn(reqs[r].trace) :
        LET tr == reqs[r].trace
            res == Resolutions(tr, key, TRUE)
        IN /\ Cardinality(Invokes(tr, key, TRUE)) <= 1
           /\ res # {} =>
                /\ Cardinality(Invokes(tr, key, TRUE)) = 1
                /\ key \in DOMAIN reqs[r].di_cache
                /\ \A i \in res : tr[i].obj = reqs[r].di_cache[key]
                /\ \A i \in Invokes(tr, key, TRUE) :
                      /\ i < SeqMin(res)
                      /\ tr[i].obj.id = tr[SeqMin(res)].obj.id

C2_Witness ==
    \E r \in DOMAIN reqs :
        LET tr == reqs[r].trace
            res == Resolutions(tr, <<"type", "A">>, TRUE)
        IN /\ reqs[r].phase = "done"
           /\ reqs[r].sent = <<200>>
           /\ \E i \in res : tr[i].who = "pB"
           /\ \E i \in res : tr[i].who = "hAB"

\* C3: when a request is over every resource that was registered has been
\* released, last registered first, whether the handler returned, the handler
\* raised, or a resolver of a later parameter raised before the handler ran;
\* nothing is released before the request is over.
C3_ReleasedInReverse ==
    \A r \in DOMAIN reqs :
        LET acq == ObjIds(reqs[r].trace, "acquire")
            rel == ObjIds(reqs[r].trace, "release")
        IN /\ IsPrefix(rel, Reverse(acq))
           /\ rel # <<>> => reqs[r].phase \in {"teardown", "done"}
           /\ reqs[r].phase = "done" => rel = Reverse(acq) /\ reqs[r].exit_stack = <<>>

C3_Witness ==
    \E r \in DOMAIN reqs :
        /\ reqs[r].phase = "done"
        /\ reqs[r].sent = <<422>>
        /\ At(reqs[r].trace, "handler") = {}
        /\ \E i \in At(reqs[r].trace, "raise") : reqs[r].trace[i].idx = 2
        /\ Len(ObjIds(reqs[r].trace, "release")) = 2

\* the position at which object id is the subject of an event of kind e (0 if none)
PosOf(tr, e, id) ==
    LET S == {i \in At(tr, e) : tr[i].obj.id = id} IN IF S = {} THEN 0 ELSE SeqMin(S)

\* C4: B's provider takes A.  Whenever B's provider body runs, A was handed
\* to it by a resolution that came first and A was registered for cleanup
\* before that; B is registered after its provider ran; and at the end of the
\* request B is released before that A, whatever the handler did.
C4_NestedAcquireOrder ==
    \A r \in DOMAIN reqs :
        LET tr == reqs[r].trace IN
        \A b \in {i \in At(tr, "invoke") : tr[i].who = "pB"} :
            /\ b > 1
            /\ tr[b - 1].e = "dep" /\ tr[b - 1].who = "pB" /\ tr[b - 1].idx = 1
            /\ PosOf(tr, "invoke", tr[b - 1].obj.id) \in 1..(b - 2)
            /\ PosOf(tr, "acquire", tr[b - 1].obj.id) \in 1..(b - 2)
            /\ PosOf(tr, "acquire", tr[b].obj.id) \in {0} \cup ((b + 1)..Len(tr))
            /\ PosOf(tr, "release", tr[b - 1].obj.id) # 0 /\ PosOf(tr, "acquire", tr[b].obj.id) # 0
                  => PosOf(tr, "release", tr[b].obj.id) \in
                        1..(PosOf(tr, "release", tr[b - 1].obj.id) - 1)
            /\ reqs[r].phase = "done" /\ PosOf(tr, "acquire", tr[b].obj.id) # 0
                  => PosOf(tr, "release", tr[b - 1].obj.id) # 0

C4_Witness ==
    \E r \in DOMAIN reqs :
        LET tr == reqs[r].trace IN
        /\ reqs[r].phase = "done"
        /\ reqs[r].sent = <<500>>
        /\ At(tr, "handler") # {}
        /\ \E b \in At(tr, "release"), a \in At(tr, "release") :
              tr[b].who = "pB" /\ tr[a].who = "pA" /\ b < a

\* objects made by provider bodies that ran for cache-disabled resolvers
UncachedObjs(tr) == {tr[i].obj.id : i \in {j \in At(tr, "invoke") : ~tr[j].use_cache}} \ {0}

\* C5: each cache-disabled resolution of a key runs the provider once more
\* and gets an object of its own; such an object is never put in the request
\* cache and no cache-disabled resolution is answered from the cache; each
\* object is registered for cleanup once, and they are released at the end
\* of the request in reverse order of creation.
C5_UncachedEveryTime ==
    \A r \in DOMAIN reqs :
        LET tr == reqs[r].trace IN
        /\ \A key \in KeysIn(tr) :
              LET res == Resolutions(tr, key, FALSE)
                  inv == Invokes(tr, key, FALSE)
              IN /\ Cardinality(inv) \in {Cardinality(res), Cardinality(res) + 1}
                 /\ reqs[r].phase = "done" /\ At(tr, "raise") = {}
                       => Cardinality(inv) = Cardinality(res)
                 /\ \A i \in res : tr[i - 1].e \in {"invoke", "acquire"}
                                   /\ tr[i - 1].obj.id = tr[i].obj.id
                 /\ \A i, j \in res : i # j => tr[i].obj.id # tr[j].obj.id
                 /\ \A i \in res : \A j \in At(tr, "invoke") :
                       tr[j].use_cache => tr[j].obj.id # tr[i].obj.id
        /\ \A k \in DOMAIN reqs[r].di_cache :
              reqs[r].di_cache[k].id \notin UncachedObjs(tr)
        /\ \A id \in UncachedObjs(tr) :
              /\ Cardinality({i \in At(tr, "acquire") : tr[i].obj.id = id}) = 1
              /\ reqs[r].phase = "done" => PosOf(tr, "release", id) # 0
        /\ \A a, b \in UncachedObjs(tr) :
              a < b /\ PosOf(tr, "release", a) # 0
                 => PosOf(tr, "release", b) \in 1..(PosOf(tr, "release", a) - 1)

C5_Witness ==
    \E r \in DOMAIN reqs :
        LET tr == reqs[r].trace IN
        /\ reqs[r].phase = "done"
        /\ reqs[r].sent = <<200>>
        /\ Cardinality(Resolutions(tr, <<"depends", "pR">>, FALSE)) = 2
        /\ Cardinality(Invokes(tr, <<"depends", "pR">>, FALSE)) = 2
        /\ reqs[r].di_cache = <<>>

\* what a request trace shows of interceptors and handler
Label(x) == <<x.e, IF x.e = "handler" THEN "H" ELSE x.who>>

MwTrace(tr) ==
    LET s == SelectSeq(tr, LAMBDA x : x.e \in {"mw_before", "handler", "mw_after"})
    IN [i \in 1..Len(s) |-> Label(s[i])]

\* interceptors in the order mws around the handler, first one outermost
Onion(mws) ==
    [i \in 1..Len(mws) |-> <<"mw_before", mws[i]>>]
       \o << <<"handler", "H">> >>
       \o [i \in 1..Len(mws) |-> <<"mw_after", mws[Len(mws) + 1 - i]>>]

\* C6: with global interceptors registered in the order G and the router's
\* interceptors R on the matched route, a request runs G-before in
\* registration order, then R-before, the handler, R-after and G-after in
\* reverse: the whole of it when the response is 200, a prefix of it otherwise.
C6_MiddlewareOrder ==
    \A r \in DOMAIN reqs :
        /\ IsPrefix(MwTrace(reqs[r].trace),
                    Onion(app.http_middlewares \o router.http_middlewares))
        /\ reqs[r].sent = <<200>> =>
              MwTrace(reqs[r].trace) = Onion(app.http_middlewares \o router.http_middlewares)

C6_Witness ==
    \E r \in DOMAIN reqs :
        /\ reqs[r].phase = "done"
        /\ app.http_middlewares = <<"A", "B">>
        /\ router.http_middlewares = <<"R">>
        /\ MwTrace(reqs[r].trace) =
              << <<"mw_before", "A">>, <<"mw_before", "B">>, <<"mw_before", "R">>,
                 <<"handler", "H">>,
                 <<"mw_after", "R">>, <<"mw_after", "B">>, <<"mw_after", "A">> >>

\* the parameters of fn whose resolver was started, in trace order
ParamsStarted(tr, fn) ==
    LET s == SelectSeq(tr, LAMBDA x : x.e = "param" /\ x.who = fn)
    IN [i \in 1..Len(s) |-> s[i].idx]

\* C7: the resolvers of the handler start in declared order 1, 2, ..., each
\* after the one before it has finished; the handler body runs only after
\* all of them; when the resolver of a parameter raises (a path segment that
\* is not an integer) nothing more is resolved, the handler body does not run
\* and the response is the 422 client error.
C7_ResolversInOrder ==
    \A r \in DOMAIN reqs : reqs[r].routed.present =>
        LET tr == reqs[r].trace
            fn == reqs[r].routed.compiled.fn
            started == ParamsStarted(tr, fn)
        IN /\ started = [i \in 1..Len(started) |-> i]
           /\ Len(started) <= Len(Signature(fn))
           /\ \A i \in At(tr, "param") : tr[i].who = fn /\ tr[i].idx > 1 =>
                 \E j \in 1..(i - 1) : tr[j].who = fn /\ tr[j].idx = tr[i].idx - 1
                                        /\ tr[j].e \in {"param", "dep"}
                                        /\ (Signature(fn)[tr[j].idx].kind \in {"type", "depends"}
                                               => tr[j].e = "dep")
           /\ \A h \in At(tr, "handler") :
                 /\ Len(started) = Len(Signature(fn))
                 /\ \A i \in At(tr, "param") : i < h
           /\ \A i \in At(tr, "param") :
                 Signature(tr[i].who)[tr[i].idx].kind = "path" /\ reqs[r].path = Q_rz =>
                    /\ i < Len(tr) /\ tr[i + 1].e = "raise"
                    /\ tr[i + 1].who = tr[i].who /\ tr[i + 1].idx = tr[i].idx
           /\ \A i \in At(tr, "raise") : tr[i].idx > 0 =>
                 /\ reqs[r].exc.status = 422
                 /\ reqs[r].phase # "raised" => reqs[r].sent = <<422>>
                 /\ At(tr, "handler") = {}
                 /\ \A j \in (i + 1)..Len(tr) : tr[j].e = "release"

C7_Witness ==
    \E r \in DOMAIN reqs :
        LET tr == reqs[r].trace IN
        /\ reqs[r].phase = "done"
        /\ reqs[r].routed.present
        /\ reqs[r].routed.compiled.fn = "hxA"
        /\ reqs[r].path = Q_rz
        /\ ParamsStarted(tr, "hxA") = <<1>>
        /\ reqs[r].sent = <<422>>

\* ------------------------------------------------- properties of composition

\* C11: a provide for a key that is already registered raises and changes
\* nothing; over every provide, include_router, add_route and compile step
\* each registered key stays registered with the spec it was given.
C11_Step ==
    /\ \A key \in DOMAIN router.providers :
          /\ key \in DOMAIN router'.providers
          /\ router'.providers[key] = router.providers[key]
    /\ last'.op = "provide" /\ last'.key \in DOMAIN router.providers
          => last'.err = "ValueError" /\ router' = router

C11_RegistryMonotonic == [][C11_Step]_vars

\* A came in from sub-router d (not cached); provide(A) on the parent was refused
C11_Witness ==
    /\ last.op = "provide"
    /\ last.key = "A"
    /\ last.err = "ValueError"
    /\ "A" \in DOMAIN router.providers
    /\ ~router.providers["A"].use_cache

\* ------------------------------------------------------ properties of lookup

Node_b == RouteNode(P_b)

\* the map from distinct names to the values at the same positions
KeyedBy(names, values) ==
    [n \in {names[i] : i \in 1..Len(names)} |->
        values[CHOOSE i \in 1..Len(names) : names[i] = n]]

\* lookups whose node and captured values are known: "/a/t" ends at the
\* parameter child of "a" with the value "t", "/b" at the literal node "b"
KnownLookups ==
    {[path |-> Q_at, node |-> Node_ax, values |-> << <<"t">> >>],
     [path |-> P_b, node |-> Node_b, values |-> <<>>]}

\* the unit recorded for a method at a node, if any
UnitAt(R, node, method) ==
    IF <<node, method>> \in DOMAIN R.routed THEN R.routed[<<node, method>>] ELSE NoRouted

\* C12: at a node without a dispatchable HEAD unit a HEAD lookup gives the
\* GET unit with the values keyed by GET's names (nothing if there is no GET
\* unit either); a dispatchable HEAD unit is given in preference to GET; GET
\* and POST lookups give the unit of their own method or nothing.
C12_HeadFallback ==
    \A c \in KnownLookups : c.node \in router.nodes =>
        LET head == match(router, "HEAD", c.path)
            kH == <<c.node, "HEAD">>
            kG == <<c.node, "GET">>
        IN /\ kH \in DOMAIN router.routed =>
                 /\ head.routed = router.routed[kH]
                 /\ head.params = KeyedBy(router.param_names[kH], c.values)
           /\ kH \notin DOMAIN router.routed /\ kG \in DOMAIN router.routed =>
                 /\ head.routed = router.routed[kG]
                 /\ head.params = KeyedBy(router.param_names[kG], c.values)
           /\ kH \notin DOMAIN router.routed /\ kG \notin DOMAIN router.routed =>
                 ~head.routed.present
           /\ \A M \in {"GET", "POST"} :
                 match(router, M, c.path).routed = UnitAt(router, c.node, M)

\* HEAD /a/t was answered by the GET route /a/{x}, no HEAD route being there
C12_Witness ==
    /\ last.op = "match"
    /\ last.methods = <<"HEAD">>
    /\ last.path = Q_at
    /\ last.routed.present
    /\ last.routed.compiled.fn = "hx"
    /\ last.params = KeyedBy(<< <<"x">> >>, << <<"t">> >>)
    /\ <<Node_ax, "HEAD">> \notin DOMAIN router.handlers

\* the non-empty pieces of a path between slashes, read left to right
RECURSIVE SegmentsOf(_, _)
SegmentsOf(p, cur) ==
    IF p = <<>> THEN (IF cur = <<>> THEN <<>> ELSE <<cur>>)
    ELSE IF Head(p) = "/"
         THEN (IF cur = <<>> THEN <<>> ELSE <<cur>>) \o SegmentsOf(Tail(p), <<>>)
         ELSE SegmentsOf(Tail(p), Append(cur, Head(p)))

\* C13: two lookup paths with the same non-empty segments give the same
\* unit and the same parameter map, for every method and router state.
C13_PathNormalization ==
    \A p1 \in {P_as, Q_at, P_b} : \A p2 \in Spellings :
        SegmentsOf(p1, <<>>) = SegmentsOf(p2, <<>>) =>
            \A M \in {"GET", "HEAD", "POST"} :
                match(router, M, p1) = match(router, M, p2)

\* "a/s/" was looked up and found the route registered as "/a/s"
C13_Witness ==
    /\ last.op = "match"
    /\ last.path = Q_as2
    /\ last.routed.present
    /\ <<Node_as, "GET">> \in DOMAIN router.routed
    /\ last.routed = router.routed[<<Node_as, "GET">>]
    /\ match(router, "GET", Q_as3).routed = last.routed

\* C14: a lookup that gives no unit gives an empty parameter map, in every
\* router state, routes registered but not yet compiled included.
C14_NoUnitNoParams ==
    \A M \in {"GET", "HEAD", "POST"} : \A p \in Spellings :
        ~match(router, M, p).routed.present => match(router, M, p).params = <<>>

\* a lookup path that leads to a node: "4" stands where a value is captured
SegsTo(node) == [i \in 1..Len(node) |-> IF node[i] = ParamEdge THEN <<"4">> ELSE node[i]]

\* C15: for every registered route and method the recorded list of
\* parameter names is as long as the number of parameter edges on the way to
\* the route's node, which is the number of values a lookup captures on
\* reaching that node (a HEAD lookup using GET's names included).
C15_ParamNamesMatchCaptures ==
    \A k \in DOMAIN router.param_names :
        LET w == Walk(router, SegsTo(k[1]), 1, <<>>, <<>>)
        IN /\ k \in DOMAIN router.handlers
           /\ Len(router.param_names[k]) = Cardinality(ParamPositions(k[1]))
           /\ w.found /\ w.node = k[1]
           /\ Len(w.values) = Len(router.param_names[k])

\* sub-router c was included under "/{t}" and compiled: its route "/a/{x}"
\* has the two names t and x
C15_Witness ==
    /\ router.compiled_once
    /\ \E k \in DOMAIN router.routed :
          /\ router.param_names[k] = << <<"t">>, <<"x">> >>
          /\ k[1] = <<ParamEdge, <<"a">>, ParamEdge>>

\* C16: GET /a/{x} and POST /a//{y}/ end at the same parameter child; a GET
\* lookup of /a/t keys the captured value by x and a POST lookup by y,
\* whichever was registered first.
C16_NamesPerMethod ==
    /\ RouteNode(P_ax) = RouteNode(P_ay)
    /\ <<Node_ax, "GET">> \in DOMAIN router.routed =>
          match(router, "GET", Q_at).params = KeyedBy(<< <<"x">> >>, << <<"t">> >>)
    /\ <<Node_ax, "POST">> \in DOMAIN router.routed =>
          match(router, "POST", Q_at).params = KeyedBy(<< <<"y">> >>, << <<"t">> >>)
    /\ \A k \in DOMAIN router.param_names : k[1] = Node_ax =>
          router.param_names[k] = IF k[2] = "GET" THEN << <<"x">> >> ELSE << <<"y">> >>

\* both routes are compiled, and POST /a/t was answered with y = t
C16_Witness ==
    /\ <<Node_ax, "GET">> \in DOMAIN router.routed
    /\ <<Node_ax, "POST">> \in DOMAIN router.routed
    /\ last.op = "match"
    /\ last.methods = <<"POST">>
    /\ last.path = Q_at
    /\ last.routed.present
    /\ last.params = KeyedBy(<< <<"y">> >>, << <<"t">> >>)

\* --------------------------------------- an application on composed routers

\* the prefix "/g" and the request path "/p/g/b"
Pre_g == <<"/", "g">>
Q_pgb == <<"/", "p", "/", "g", "/", "b">>

\* sub-router g: an interceptor G and the route "/b"
Sub_g == add_route(add_middleware(NewRouter("g"), <<"G">>), P_b, "h0", <<"GET">>, <<"-", "-">>).R

\* sub-router c after it included g under "/g"
Sub_cg == include_router(Sub_c, Sub_g, Pre_g).R

\* the parent before composition: providers for A and B and the route "/r/{x}"
Parent0 ==
    add_route(provide(provide(NewRouter("r"), "A", "pA", TRUE).R, "B", "pB", TRUE).R,
              P_rx, "hBA", <<"GET">>, <<"-", "-">>).R

\* the parent gets its interceptor P before or after it includes the child
\* under "/p"; BardApp(router) compiles
MountedRouter(child, early) ==
    compile(IF early
            THEN include_router(add_middleware(Parent0, <<"P">>), child, Pre_p).R
            ELSE add_middleware(include_router(Parent0, child, Pre_p).R, <<"P">>)).R

MountedPaths == {Q_r4, Q_p2, Q_pa4, Q_pgb, Q_q}

MInit ==
    \E child \in {Sub_c, Sub_cg}, early \in BOOLEAN, global \in {<<>>, <<"A">>} :
        /\ router = MountedRouter(child, early)
        /\ last = NoLast
        /\ app = [http_middlewares |-> global, exception_handlers |-> <<>>, ws_middlewares |-> <<>>]
        /\ reqs = [r \in {1} |-> NewRequest]
        /\ nobj = 0

MNext ==
    \/ \E r \in DOMAIN reqs, path \in MountedPaths : HandleHttp(r, path)
    \/ \E r \in DOMAIN reqs : MwBefore(r)
    \/ \E r \in DOMAIN reqs : ResolveParam(r)
    \/ \E r \in DOMAIN reqs, outcome \in {"ok", "Exception"} : InvokeProvider(r, outcome)
    \/ \E r \in DOMAIN reqs, outcome \in {"ok", "Exception", "HTTPError"} : InvokeHandler(r, outcome)
    \/ \E r \in DOMAIN reqs : MwAfter(r)
    \/ \E r \in DOMAIN reqs : Respond(r)
    \/ \E r \in DOMAIN reqs : Except(r)
    \/ \E r \in DOMAIN reqs : Release(r)

SpecMounted == MInit /\ [][MNext]_vars

\* the interceptors that ran before the handler, in order
Befores(tr) ==
    LET s == SelectSeq(tr, LAMBDA x : x.e = "mw_before") IN [i \in 1..Len(s) |-> s[i].who]

\* the routes the parent got from the child: the child's own "/" and
\* "/a/{x}", and "/g/b" which the child got from g
IncludedPaths == {Q_p2, Q_pa4, Q_pgb}

\* the names of the interceptors that ran for request r
RanFor(r) == {Befores(reqs[r].trace)[i] : i \in 1..Len(Befores(reqs[r].trace))}

\* a request to the route registered on the parent itself runs no
\* interceptor of a sub-router
DirectRouteIsolated ==
    \A r \in DOMAIN reqs : reqs[r].path = Q_r4 => "C" \notin RanFor(r) /\ "G" \notin RanFor(r)

\* a request that reached the handler of a route the parent got from the
\* child ran the child's interceptor C
IncludedRoutesWrapped ==
    \A r \in DOMAIN reqs :
        reqs[r].path \in IncludedPaths /\ At(reqs[r].trace, "handler") # {}
            => "C" \in RanFor(r)

\* C17: the child's interceptor C runs for every request to a route the
\* parent got from the child, and for no request to the route registered on
\* the parent itself.
C17_ChildMiddlewareScoped == DirectRouteIsolated /\ IncludedRoutesWrapped

\* C18: a request to a route the parent got from a sub-router runs the
\* parent's interceptor P outside the sub-router's, and for "/p/g/b" the
\* interceptors of every enclosing router: P, then C, then G.
C18_EnclosingMiddlewareRuns ==
    \A r \in DOMAIN reqs :
        reqs[r].path \in IncludedPaths /\ At(reqs[r].trace, "handler") # {} =>
            Befores(reqs[r].trace) =
                app.http_middlewares \o
                (IF reqs[r].path = Q_pgb THEN <<"P", "C", "G">> ELSE <<"P", "C">>)

\* C19: an include_router call whose sub-router has a provider key that the
\* destination already has raises a configuration error in that call, before
\* any route of the sub-router is added.
C19_Step ==
    last'.op = "include"
    /\ DOMAIN SubById(last'.other).providers \cap DOMAIN router.providers # {}
        => /\ last'.err = "ValueError"
           /\ router'.route_specs = router.route_specs
           /\ router'.handlers = router.handlers

C19_ProviderCollisionRaises == [][C19_Step]_vars

\* the parent had B; including d under "/p/" took A from d and was refused at B
C19_Witness ==
    /\ last.op = "include"
    /\ last.other = "d"
    /\ last.path = Pre_p
    /\ last.err = "ValueError"
    /\ "A" \in DOMAIN router.providers
    /\ ~router.providers["A"].use_cache
    /\ router.provider_order = <<"B", "A">>

\* the names of a sequence of names
NameSet(names) == {names[i] : i \in 1..Len(names)}

\* route spec sp of the sub-router, method M, as the parent R has it after
\* the sub-router was included under prefix: recorded at the node of the
\* prefix followed by the path, with the sub-router's handler and the
\* prefix's placeholder names followed by the sub-router's names; found by a
\* lookup of prefix + path as soon as the parent's providers resolve the
\* handler, whose dependencies are then bound to the parent's provider specs;
\* the root route is found at the prefix with and without a trailing slash
IncludedAs(R, other, prefix, sp, M) ==
    LET k == <<RouteNode(prefix) \o RouteNode(sp.path), M>>
        m == match(R, M, RStrip(prefix) \o sp.path)
    IN /\ k \in DOMAIN R.handlers
       /\ R.handlers[k] = sp.handler
       /\ R.handlers[k] = other.handlers[<<RouteNode(sp.path), M>>]
       /\ R.param_names[k] =
             RouteParamNames(prefix) \o other.param_names[<<RouteNode(sp.path), M>>]
       /\ ~Unresolved(sp.handler, R.providers) =>
             /\ m.routed.present
             /\ m.routed.compiled.fn = sp.handler
             /\ DOMAIN m.params = NameSet(R.param_names[k])
             /\ \A i \in 1..Len(Signature(sp.handler)) :
                   Signature(sp.handler)[i].kind = "type" =>
                      /\ m.routed.compiled.resolvers[i].kind = "dep"
                      /\ m.routed.compiled.resolvers[i].cp.fn =
                            R.providers[Signature(sp.handler)[i].key].provider
                      /\ m.routed.compiled.resolvers[i].use_cache =
                            R.providers[Signature(sp.handler)[i].key].use_cache
             /\ sp.path = P_root /\ RStrip(prefix) # <<>> =>
                   /\ match(R, M, RStrip(prefix)).routed = m.routed
                   /\ match(R, M, RStrip(prefix) \o <<Slash>>).routed = m.routed

\* C20: after an include_router call that returned normally, every route
\* and method of the sub-router is in the parent under the prefix, with the
\* same handler and names, the root route at the prefix itself, resolved
\* with the parent's providers.
C20_Step ==
    last'.op = "include" /\ last'.err = NoErr =>
        \A i \in 1..Len(SubById(last'.other).route_specs) :
            \A j \in 1..Len(SubById(last'.other).route_specs[i].methods) :
                IncludedAs(router', SubById(last'.other), last'.path,
                           SubById(last'.other).route_specs[i],
                           Upper(SubById(last'.other).route_specs[i].methods[j]))

C20_IncludedRoutesReachable == [][C20_Step]_vars

\* sub-router c was included under "/p/": its root route answers "/p" and
\* "/p/", its parameter route "/p/a/4"
C20_Witness ==
    /\ last.op = "include"
    /\ last.err = NoErr
    /\ last.other = "c"
    /\ last.path = Pre_p
    /\ match(router, "GET", P_p).routed.present
    /\ match(router, "GET", Q_p2).routed = match(router, "GET", P_p).routed
    /\ match(router, "GET", Q_pa4).routed.present
    /\ match(router, "GET", Q_pa4).routed.compiled.fn = "hx"

\* ------------------------------------------- properties of the error paths

Starts(msgs) == {i \in 1..Len(msgs) : msgs[i].type = "http.response.start"}

\* the response the app ended on: its start and what followed
LastResponse(msgs) ==
    LET k == CHOOSE i \in Starts(msgs) : \A j \in Starts(msgs) : j <= i
    IN SubSeq(msgs, k, Len(msgs))

\* the positions of the exceptions that left the dispatch itself
DispatchRaises(tr) == {i \in At(tr, "raise") : tr[i].who \notin {"to_response", "response"}}

\* C21: on every path of an HTTP request exactly one response start is sent,
\* followed by the body; the app never returns without a response and never
\* starts a second one.
C21_ExactlyOneResponse ==
    \A r \in DOMAIN reqs :
        LET m == reqs[r].msgs
        IN /\ Cardinality(Starts(m)) <= 1
           /\ reqs[r].phase = "done" =>
                 /\ ~reqs[r].escaped
                 /\ Starts(m) = {1}
                 /\ Len(m) >= 2
                 /\ \A i \in 2..Len(m) : m[i].type = "http.response.body"
                 /\ ~m[Len(m)].more_body

\* C22: an HTTPError raised by a handler, a provider, an extractor or a
\* middleware becomes the response with its status, detail and headers, and
\* no registered exception handler runs for it, whatever is registered.
C22_HTTPErrorDirect ==
    \A r \in DOMAIN reqs :
        LET q == reqs[r]
        IN q.exc.cls = "HTTPError" /\ DispatchRaises(q.trace) # {} =>
              /\ At(q.trace, "exc_handler") = {}
              /\ q.phase # "exc_handler"
              /\ q.phase \in {"teardown", "done"} =>
                    q.msgs = <<Start(q.exc.status, q.exc.headers), Body(q.exc.detail, FALSE)>>

\* who raised the HTTPError of a finished request
RaisedBy(q) == {q.trace[i].who : i \in DispatchRaises(q.trace)}

C22_Witness ==
    /\ {"HTTPError", "Exception"} \subseteq DOMAIN app.exception_handlers
    /\ \E r \in DOMAIN reqs :
          /\ reqs[r].phase = "done"
          /\ reqs[r].exc = HTTPError(418, <<"teapot">>, <<"x-tea">>)
          /\ RaisedBy(reqs[r]) = {"pA"}
          /\ reqs[r].sent = <<418>>

\* C23: for an exception that is not an HTTPError the table is searched from
\* the most specific class of the hierarchy to the least specific and only
\* the first registered handler is invoked; with no handler in the
\* hierarchy, or a handler that yields no result, the response is the 500.
C23_MostSpecificHandler ==
    \A r \in DOMAIN reqs :
        LET q == reqs[r]
            tr == q.trace
            registered == {i \in 1..Len(Mro(q.exc.cls)) :
                              Mro(q.exc.cls)[i] \in DOMAIN app.exception_handlers}
            invoked == [i \in 1..Len(SelectSeq(tr, LAMBDA x : x.e = "exc_handler")) |->
                           SelectSeq(tr, LAMBDA x : x.e = "exc_handler")[i].who]
        IN q.exc.cls \notin {"-", "HTTPError"} /\ q.phase \in {"exc_handler", "teardown", "done"} =>
              /\ registered = {} =>
                    /\ invoked = <<>>
                    /\ q.phase # "exc_handler"
                    /\ LastResponse(q.msgs) =
                          <<Start(500, <<>>), Body(InternalServerError, FALSE)>>
              /\ registered # {} =>
                    /\ \A i \in registered : q.found = Mro(q.exc.cls)[i] => \A j \in registered : i <= j
                    /\ q.found \in DOMAIN app.exception_handlers
                    /\ q.phase = "exc_handler" => invoked = <<>>
                    /\ q.phase # "exc_handler" => invoked = <<q.found>>
                    /\ q.handled = "None" =>
                          LastResponse(q.msgs) =
                             <<Start(500, <<>>), Body(InternalServerError, FALSE)>>

C23_Witness ==
    /\ DOMAIN app.exception_handlers = {"LookupError", "Exception"}
    /\ \E r \in DOMAIN reqs :
          /\ reqs[r].phase = "done"
          /\ reqs[r].exc.cls = "KeyError"
          /\ reqs[r].found = "LookupError"
          /\ reqs[r].handled = "ok"
          /\ reqs[r].sent = <<200>>

\* ------------------------------------------ properties of concurrent requests

\* the objects a request saw: produced for it, handed to its parameters,
\* held in its cache or on its exit stack
Seen(q) ==
    ({q.trace[i].obj.id : i \in 1..Len(q.trace)}
        \cup {q.di_cache[k].id : k \in DOMAIN q.di_cache}
        \cup {q.exit_stack[i].obj.id : i \in 1..Len(q.exit_stack)}) \ {0}

\* C24: under any interleaving of the requests no request is handed, or
\* holds in its cache, an object produced for another; a resource is
\* released only by the teardown of the request that acquired it, while that
\* request is being torn down; and each request that resolved a
\* cache-enabled key ran the provider of that key exactly once itself.
C24_RequestsIsolated ==
    \A r \in DOMAIN reqs :
        LET q == reqs[r]
            tr == q.trace
        IN /\ \A o \in DOMAIN reqs : o # r => Seen(q) \cap Seen(reqs[o]) = {}
           /\ \A i \in At(tr, "release") :
                 /\ \E j \in At(tr, "acquire") : j < i /\ tr[j].obj.id = tr[i].obj.id
                 /\ q.phase \in {"teardown", "done"}
           /\ \A key \in KeysIn(tr) :
                 Resolutions(tr, key, TRUE) # {} =>
                    /\ Cardinality(Invokes(tr, key, TRUE)) = 1
                    /\ \A i \in Resolutions(tr, key, TRUE) :
                          \E j \in Invokes(tr, key, TRUE) : j < i /\ tr[j].obj.id = tr[i].obj.id

\* both requests resolved the cached key A while the other was in flight,
\* each with its own object, and both are over
C24_Witness ==
    /\ \A r \in DOMAIN reqs :
          /\ reqs[r].phase = "done"
          /\ reqs[r].sent = <<200>>
          /\ Cardinality(Resolutions(reqs[r].trace, <<"type", "A">>, TRUE)) = 2
          /\ At(reqs[r].trace, "release") # {}
    /\ \E i \in At(reqs[1].trace, "invoke"), j \in At(reqs[2].trace, "invoke"),
          k \in At(reqs[1].trace, "invoke") :
          reqs[1].trace[i].obj.id < reqs[2].trace[j].obj.id
          /\ reqs[2].trace[j].obj.id < reqs[1].trace[k].obj.id

\* ----------------------------------------------- properties of extractors

\* the parameter's source holds no value for it
Absent(q, p) ==
    IF p.kind = "path" THEN p.pkey \notin DOMAIN q.params ELSE p.kind \notin q.given

\* the declared type is a union with None among its members
DeclaredOptional(type) == \E i \in 1..Len(type) : type[i] = "None"

\* what a resolver does for an absent value, Opt saying which declared types
\* count as optional
MissingValuePolicy(Opt(_)) ==
    \A r \in DOMAIN reqs :
        LET q == reqs[r]
            tr == q.trace
        IN \A i \in At(tr, "param") :
              LET p == Signature(tr[i].who)[tr[i].idx]
              IN p.kind \in SourceKinds \cup {"path"} /\ Absent(q, p) =>
                    /\ i < Len(tr) /\ tr[i + 1].who = tr[i].who /\ tr[i + 1].idx = tr[i].idx
                    /\ p.has_default => tr[i + 1].e = "value" /\ tr[i + 1].obj = Yield("default")
                    /\ ~p.has_default /\ Opt(p.type) =>
                          tr[i + 1].e = "value" /\ tr[i + 1].obj = Yield("None")
                    /\ ~p.has_default /\ ~Opt(p.type) =>
                          /\ tr[i + 1].e = "raise"
                          /\ q.exc = HTTPError(422, <<"Missing required value for", p.name>>, <<>>)
                          /\ At(tr, "handler") = {}
                          /\ q.phase = "done" =>
                                q.msgs = <<Start(422, <<>>),
                                           Body(<<"Missing required value for", p.name>>, FALSE)>>

\* C25: a value absent from its source (path, query, header, state, form
\* field, file, empty JSON body) resolves to the declared default, else to
\* None when the declared type is optional, else to the 422 error "Missing
\* required value for <name>" and the handler does not run; a Path extractor
\* whose key is not a placeholder of the route goes the same way.
C25_MissingValuePolicy == MissingValuePolicy(DeclaredOptional)

\* the same policy with optional read as is_optional_type reads it: None
\* alone or a union of two members
MissingValueTwoMemberPolicy == MissingValuePolicy(is_optional_type)

\* ------------------------------------------ properties of the resource register

\* the mechanism the priority order names for an object of these attributes
Chosen(attrs) ==
    IF "__aenter__" \in attrs /\ "__aexit__" \in attrs THEN "aexit"
    ELSE IF "__enter__" \in attrs /\ "__exit__" \in attrs THEN "exit"
    ELSE IF "aclose" \in attrs THEN "aclose"
    ELSE IF "close" \in attrs THEN "close"
    ELSE "none"

\* C26: entering a value registers exactly one cleanup, the first the value
\* offers of: async enter/exit pair, sync enter/exit pair, aclose, close;
\* a value offering none of them, and any value when the request has no
\* exit stack, comes back as it is with nothing registered.  The registered
\* cleanup is the one that runs, once, when the stack is closed.
C26_OneCleanupByPriority ==
    \A r \in DOMAIN reqs :
        LET q == reqs[r]
            v == last.value
            how == IF q.has_stack THEN Chosen(v.attrs) ELSE "none"
            released == SelectSeq(q.trace, LAMBDA x : x.e = "release")
        IN /\ last.op = "value" => q.exit_stack = <<>>
           /\ last.op = "enter_resource" =>
                 /\ how = "none" => q.exit_stack = <<>> /\ last.returned = v
                 /\ how # "none" => q.exit_stack = <<[obj |-> v, how |-> how]>>
                 /\ how \in {"aclose", "close"} => last.returned = v
           /\ q.phase = "done" =>
                 /\ how = "none" => released = <<>>
                 /\ how # "none" =>
                       /\ Len(released) = 1
                       /\ released[1].key = <<"cleanup", how>>
                       /\ released[1].obj = v

C26_Witness ==
    /\ last.op = "exit"
    /\ last.value.attrs = Attrs \ {"__aexit__"}
    /\ \E r \in DOMAIN reqs :
          /\ reqs[r].phase = "done"
          /\ reqs[r].has_stack
          /\ Len(reqs[r].trace) = 1
          /\ reqs[r].trace[1].key = <<"cleanup", "exit">>

\* ---------------------------------------------- properties of the request body

\* a message that ends the body: a disconnect, or a request message without
\* more_body
Ends(m) == m.type = "http.disconnect" \/ (m.type = "http.request" /\ ~m.more_body)

\* the position of the first message of the transport that ends the body
EndOf(transport) ==
    CHOOSE k \in 1..Len(transport) :
        Ends(transport[k]) /\ \A j \in 1..(k - 1) : ~Ends(transport[j])

RECURSIVE BytesUpTo(_, _)
\* the bodies of the request messages among the first k, concatenated
BytesUpTo(transport, k) ==
    IF k = 0 THEN <<>>
    ELSE BytesUpTo(transport, k - 1)
            \o (IF transport[k].type = "http.request" THEN transport[k].body ELSE <<>>)

\* C27: the first call of body() that completes returns the chunks received
\* up to the message without more_body, or up to a disconnect, which is no
\* error; every later call returns the same bytes and takes no message from
\* the transport.
C27_BodyIdempotent ==
    \A r \in DOMAIN reqs :
        LET q == reqs[r]
        IN q.returned # <<>> =>
              /\ \E k \in 1..Len(q.transport) : Ends(q.transport[k])
              /\ q.returned[1].value = BytesUpTo(q.transport, EndOf(q.transport))
              /\ q.returned[1].consumed = EndOf(q.transport)
              /\ q.consumed = EndOf(q.transport)
              /\ \A i \in 2..Len(q.returned) :
                    q.returned[i].value = q.returned[1].value /\ q.returned[i].consumed = 0

\* an empty body cut short by a disconnect, read three times with a further
\* message waiting on the transport
C27_Witness ==
    \E r \in DOMAIN reqs :
        /\ reqs[r].transport = <<HttpRequest(<<>>, TRUE), Disconnect, HttpRequest(<<"d">>, FALSE)>>
        /\ Len(reqs[r].returned) = 3
        /\ reqs[r].returned[3].value = <<>>

\* ---------------------------------------------- properties of cyclic graphs

\* C28: compiling a handler whose provider graph contains a cycle never
\* completes normally: the nested compile calls go on until the interpreter
\* stops them, and no configuration error is raised instead.
C28_CycleNeverCompletes ==
    last.cyclic /\ last.op = "add_route" =>
        last.err = "RecursionError" /\ last.depth = MaxDepth

\* the same for a graph none of whose providers was compiled before
FreshCycleNeverCompletes ==
    last.cyclic /\ last.fresh /\ last.op = "add_route" =>
        last.err = "RecursionError" /\ last.depth = MaxDepth

\* over a graph without a cycle the nested calls end below the limit
AcyclicCompiles ==
    last.op = "add_route" /\ ~last.cyclic =>
        last.err # "RecursionError" /\ last.depth < MaxDepth

\* ------------------------------------------------- properties of websockets

Accepts(msgs) == {i \in 1..Len(msgs) : msgs[i].type = "websocket.accept"}

Closes(msgs) == {i \in 1..Len(msgs) : msgs[i].type = "websocket.close"}

\* C29: nothing is sent when the first message is not websocket.connect; with
\* no WEBSOCKET route for the path the only message is a close with code 1000;
\* with a route, websocket.accept is the first message and it is sent before
\* any middleware or handler code has run.
C29_WebSocketHandshake ==
    \A r \in DOMAIN reqs :
        LET q == reqs[r]
        IN q.phase # "new" =>
            /\ q.first # "websocket.connect" => q.msgs = <<>> /\ q.trace = <<>>
            /\ q.first = "websocket.connect" /\ ~q.routed.present =>
                  q.msgs = <<WsMessage("websocket.close", 1000)>> /\ q.trace = <<>>
            /\ q.first = "websocket.connect" /\ q.routed.present =>
                  /\ q.msgs # <<>>
                  /\ q.msgs[1] = WsMessage("websocket.accept", 0)
                  /\ q.trace = <<>> /\ q.phase \in {"mw", "resolve"} =>
                        q.msgs = <<WsMessage("websocket.accept", 0)>>

\* a connection that was accepted, then went through a websocket middleware
\* and the handler
C29_Witness ==
    \E r \in DOMAIN reqs :
        /\ reqs[r].phase = "done"
        /\ reqs[r].first = "websocket.connect"
        /\ reqs[r].routed.present
        /\ At(reqs[r].trace, "mw_before") # {}
        /\ At(reqs[r].trace, "handler") # {}
        /\ reqs[r].msgs[1] = WsMessage("websocket.accept", 0)

\* the close() calls of the handler body
HandlerCloses(q) == {i \in At(q.trace, "call") : q.trace[i].key = <<"ws", "close">>}

\* the dispatch raised and no registered exception handler dealt with it
Unhandled(q) == q.exc # NoExc /\ (q.found = "-" \/ q.handled # "ok")

\* C30: when the app returns from an accepted connection exactly one
\* websocket.close has been sent, whatever close() calls the handler and the
\* framework made; the framework closes with 1011 when the dispatch raised
\* an exception that no exception handler handled and with 1000 otherwise;
\* an accept() after the first one or after a close sends nothing.
C30_WebSocketTermination ==
    \A r \in DOMAIN reqs :
        LET q == reqs[r]
        IN q.phase = "done" /\ q.accepted =>
            /\ Cardinality(Closes(q.msgs)) = 1
            /\ Accepts(q.msgs) = {1}
            /\ HandlerCloses(q) = {} =>
                  \A i \in Closes(q.msgs) :
                      q.msgs[i].code = IF Unhandled(q) THEN 1011 ELSE 1000

\* accept() sends once, and never after a close
AcceptSentOnce ==
    \A r \in DOMAIN reqs :
        /\ Cardinality(Accepts(reqs[r].msgs)) <= 1
        /\ \A i \in Accepts(reqs[r].msgs), j \in Closes(reqs[r].msgs) : i < j

\* close() calls that do not overlap send one close between them
CloseSentOncePerOverlap ==
    \A r \in DOMAIN reqs :
        LET q == reqs[r]
        IN /\ Cardinality(Closes(q.msgs)) <= 1 + Cardinality(HandlerCloses(q))
           /\ q.phase = "done" /\ q.accepted => Closes(q.msgs) # {}
           /\ HandlerCloses(q) = {} => Cardinality(Closes(q.msgs)) <= 1

\* the code sent by the framework when the handler body closed nothing:
\* 1011 unless an exception handler returned a value or raised
FrameworkCloseCode ==
    \A r \in DOMAIN reqs :
        LET q == reqs[r]
        IN q.phase = "done" /\ q.accepted /\ HandlerCloses(q) = {} =>
            /\ Cardinality(Closes(q.msgs)) = 1
            /\ \A i \in Closes(q.msgs) :
                  q.msgs[i].code =
                      IF q.exc # NoExc /\ (q.found = "-" \/ q.handled = "None")
                      THEN 1011 ELSE 1000

\* --------------------------------------------------- properties of lifespan

LifespanSequences ==
    {<<>>,
     <<LifespanMessage("lifespan.startup.failed")>>,
     <<LifespanMessage("lifespan.startup.complete")>>,
     <<LifespanMessage("lifespan.startup.complete"), LifespanMessage("lifespan.shutdown.complete")>>,
     <<LifespanMessage("lifespan.startup.complete"), LifespanMessage("lifespan.shutdown.failed")>>}

ReceivedTypes(q) == [i \in 1..Len(q.trace) |-> q.trace[i].who]

\* C31: what is sent on a lifespan scope is one of [], [startup.failed],
\* [startup.complete], [startup.complete, shutdown.complete],
\* [startup.complete, shutdown.failed]; nothing is sent when the first
\* message received is not lifespan.startup, and a shutdown message is sent
\* only after startup.complete and only once lifespan.shutdown was received.
C31_LifespanOrdering ==
    \A r \in DOMAIN reqs :
        LET q == reqs[r]
        IN /\ q.msgs \in LifespanSequences
           /\ q.phase # "new" /\ q.first # "lifespan.startup" => q.msgs = <<>>
           /\ Len(q.msgs) = 2 =>
                 ReceivedTypes(q) = <<"lifespan.startup", "lifespan.shutdown">>
           /\ q.msgs # <<>> => ReceivedTypes(q)[1] = "lifespan.startup"

\* one scope went through a startup and a failing shutdown of the context
\* manager while another was refused at its first message
C31_Witness ==
    /\ app.lifespan
    /\ \E r \in DOMAIN reqs :
          /\ reqs[r].phase = "done"
          /\ reqs[r].msgs = <<LifespanMessage("lifespan.startup.complete"),
                              LifespanMessage("lifespan.shutdown.failed")>>
    /\ \E r \in DOMAIN reqs :
          /\ reqs[r].phase = "done"
          /\ reqs[r].first = "other"
          /\ reqs[r].msgs = <<>>

\* ---------------------------------------- properties of leaving the scope

\* the handler itself raised
HandlerRaised(q) ==
    \E i \in At(q.trace, "raise") : q.trace[i].who = q.routed.compiled.fn

\* C32: when the handler of an HTTP request raises, the error is turned into
\* a response first and every exit hook of the request's resources is then
\* invoked as a normal exit, with no exception passed to it.
C32_ExitHooksExceptionFree ==
    \A r \in DOMAIN reqs :
        LET q == reqs[r]
        IN HandlerRaised(q) =>
            /\ \A i \in DOMAIN q.exits : q.exits[i].exc = "None"
            /\ q.phase \in {"teardown", "done"} => q.msgs # <<>>
            /\ q.phase = "done" => Len(q.exits) = Cardinality(At(q.trace, "acquire"))

\* whenever an except clause of _handle_http dealt with the exception, the
\* response is out before the hooks run and the hooks are given no exception
ExitHooksCleanWhenCaught ==
    \A r \in DOMAIN reqs :
        LET q == reqs[r]
        IN HandlerRaised(q) /\ ~q.escaped =>
            /\ \A i \in DOMAIN q.exits : q.exits[i].exc = "None"
            /\ q.phase \in {"teardown", "done"} => q.msgs # <<>>

\* every resource that was entered is released, whatever left the block
AllReleased ==
    \A r \in DOMAIN reqs :
        reqs[r].phase = "done" =>
            Cardinality(At(reqs[r].trace, "release")) = Cardinality(At(reqs[r].trace, "acquire"))

\* ------------------------------------- properties of registration order

\* the resolvers a handler gets when every provider is registered before it
ProvidedFirst(R, fn) == compile_handler(fn, R.providers, <<>>)

\* the parameters of fn that depend by type on a key with a provider
TypeDependencies(R, fn) ==
    {i \in DOMAIN Signature(fn) :
        Signature(fn)[i].kind = "type" /\ Signature(fn)[i].key \in DOMAIN R.providers}

\* C33: after compile(), for a handler parameter that depends by its type on
\* a key provided before compile(), the resolver in effect is the one the
\* handler gets when provide() comes before add_route, whatever the order
\* was and whether or not the parameter has a default or an optional type.
C33_RegistrationOrderIndependent ==
    router.compiled_once =>
        \A k \in DOMAIN router.routed :
            LET fn == router.handlers[k]
            IN \A i \in TypeDependencies(router, fn) :
                  /\ ProvidedFirst(router, fn).err = NoErr
                  /\ router.routed[k].compiled.resolvers[i] =
                        ProvidedFirst(router, fn).compiled.resolvers[i]

\* the same for the parameters that have neither default nor optional type
PlainOrderIndependent ==
    router.compiled_once =>
        \A k \in DOMAIN router.routed :
            LET fn == router.handlers[k]
            IN \A i \in TypeDependencies(router, fn) :
                  ~Signature(fn)[i].has_default /\ ~Signature(fn)[i].optional =>
                      router.routed[k].compiled.resolvers[i] =
                          ProvidedFirst(router, fn).compiled.resolvers[i]

\* ------------------------------------- properties of a failing add_route

\* C34: an add_route that raises adds no handler, parameter-name or
\* middleware entry to the trie for any of its methods and retains no route
\* spec, also when only a later one of several methods is a duplicate.
C34_FailedAddRouteNoEffect ==
    [][last'.op = "add_route" /\ last'.err # NoErr =>
          /\ router'.handlers = router.handlers
          /\ router'.param_names = router.param_names
          /\ router'.middlewares = router.middlewares
          /\ router'.route_specs = router.route_specs]_vars

\* an add_route refused for its path changes nothing at all
BadPathNoEffect ==
    [][last'.op = "add_route" /\ ~StartsWithSlash(last'.path) =>
          last'.err = "ValueError" /\ router' = router]_vars

\* whatever the failure, entries already in the trie are not changed
FailedAddRouteKeepsEntries ==
    [][last'.op = "add_route" /\ last'.err # NoErr =>
          \A k \in DOMAIN router.handlers :
              /\ router'.handlers[k] = router.handlers[k]
              /\ router'.param_names[k] = router.param_names[k]]_vars

\* ---------------------------------- properties of a failing include_router

\* C35: an include_router that raises leaves the destination with no
\* provider, no route and no route spec gained from the sub-router.
C35_FailedIncludeNoEffect ==
    [][last'.op = "include" /\ last'.err # NoErr =>
          /\ router'.providers = router.providers
          /\ router'.handlers = router.handlers
          /\ router'.routed = router.routed
          /\ router'.route_specs = router.route_specs]_vars

\* an include_router refused for its prefix leaves the destination as it was
BadPrefixNoEffect ==
    [][last'.op = "include" /\ last'.path # <<>> /\ ~StartsWithSlash(last'.path) =>
          /\ last'.err = "ValueError"
          /\ router'.providers = router.providers
          /\ router'.handlers = router.handlers
          /\ router'.routed = router.routed
          /\ router'.route_specs = router.route_specs]_vars

\* whatever the failure, what the destination had is kept
FailedIncludeKeepsEntries ==
    [][last'.op = "include" /\ last'.err # NoErr =>
          /\ \A key \in DOMAIN router.providers : router'.providers[key] = router.providers[key]
          /\ \A k \in DOMAIN router.handlers : router'.handlers[k] = router.handlers[k]]_vars

\* ------------------------------------------ properties of lookup coverage

\* the segments a placeholder is replaced with
ConcreteSegments == {<<"a">>, <<"b">>, <<"s">>, <<"t">>}

\* the concrete paths of a registered pattern, as segments
Instances(node) ==
    {segs \in [1..Len(node) -> ConcreteSegments] :
        \A i \in 1..Len(node) : node[i] = ParamEdge \/ node[i] = segs[i]}

PathOf(segs) == Join([i \in 1..Len(segs) |-> <<Slash>> \o segs[i]])

\* compile() has run and every registered route has its unit
Compiled(R) == R.compiled_once /\ DOMAIN R.handlers \subseteq DOMAIN R.routed

\* C36: on a compiled router, for every registered route (M, P) and every
\* path got from P by putting a non-empty segment in place of each
\* placeholder, match(M, path) returns a dispatchable unit.
C36_LookupComplete ==
    Compiled(router) =>
        \A k \in DOMAIN router.handlers :
            \A segs \in Instances(k[1]) :
                match(router, k[2], PathOf(segs)).routed.present

\* the same when no placeholder is replaced with the name of a literal
\* sibling: the segment "t" is no literal of any registered route
LookupCompleteOffLiterals ==
    Compiled(router) =>
        \A k \in DOMAIN router.handlers :
            \A segs \in Instances(k[1]) :
                (\A i \in 1..Len(segs) : k[1][i] = ParamEdge => segs[i] = <<"t">>) =>
                    match(router, k[2], PathOf(segs)).routed = router.routed[k]

\* ------------------------------------------- properties after compile()

\* every (route, method) recorded in the trie has its dispatchable unit
Finalized(R) == R.compiled_once /\ DOMAIN R.handlers \subseteq DOMAIN R.routed

\* C37: once compile() has returned successfully every recorded (route,
\* method) has a dispatchable unit, and this stays so after any later
\* add_route, include_router or compile, whether it succeeds or fails.
C37_FinalizationInvariant ==
    /\ [](last.op = "compile" /\ last.err = NoErr => Finalized(router))
    /\ [][Finalized(router) => Finalized(router')]_vars

\* a finalized router with routes on which a later add_route or
\* include_router failed
C37_Witness ==
    /\ Finalized(router)
    /\ router.handlers # <<>>
    /\ last.op \in {"add_route", "include"}
    /\ last.err \in {"ValueError", "MissingProviderError"}
    /\ Len(router.route_specs) > Cardinality(DOMAIN router.handlers)

\* ------------------------------------------ properties of the two scopes

\* the request was handed to a route's handler chain
Dispatched(q) == q.phase # "new" /\ q.routed.present

\* C38: an http request is never dispatched to a handler registered under
\* WEBSOCKET, whatever its method string, and a websocket connection is
\* dispatched to handlers registered under WEBSOCKET only.
C38_ScopesSeparated ==
    \A r \in DOMAIN reqs :
        Dispatched(reqs[r]) => (reqs[r].routed.is_websocket <=> ~IsHttp(reqs[r]))

\* a websocket connection only reaches handlers registered under WEBSOCKET
WsOnlyWebsocketRoutes ==
    \A r \in DOMAIN reqs :
        Dispatched(reqs[r]) /\ ~IsHttp(reqs[r]) =>
            /\ reqs[r].routed.is_websocket
            /\ reqs[r].routed.compiled.fn = "hW"

\* an http request whose method is not spelled WEBSOCKET never reaches them
HttpOtherMethodsSeparated ==
    \A r \in DOMAIN reqs :
        Dispatched(reqs[r]) /\ IsHttp(reqs[r]) /\ Upper(reqs[r].method) # "WEBSOCKET" =>
            ~reqs[r].routed.is_websocket

\* ------------------------------------------- properties of the snapshot

SnapshotPaths == {P_b, P_as, Q_pb, <<"/", "p", "/", "a", "/", "s">>}

\* what a request for (method, path) is dispatched to: the unit and the
\* interceptors the router contributes
DispatchOf(R, method, path) ==
    [routed |-> match(R, method, path).routed,
     middlewares |-> RouteMiddlewares(R, match(R, method, path).routed)]

SubOps == {"sub.add_route", "sub.provide", "sub.add_middleware"}

\* C39: once include_router(sub, prefix) has returned, nothing that is added
\* to the sub-router (routes, providers, router-level middleware) changes
\* what the parent matches or dispatches.
C39_IncludeIsSnapshot ==
    [][last.included /\ last'.op \in SubOps =>
          \A path \in SnapshotPaths :
              DispatchOf(router', "GET", path) = DispatchOf(router, "GET", path)]_vars

\* routes and providers added to the sub-router afterwards do not reach the
\* parent
LaterRoutesAndProvidersUnseen ==
    [][last.included /\ last'.op \in {"sub.add_route", "sub.provide"} =>
          router' = router]_vars

\* middleware added to the sub-router afterwards changes no lookup result
LaterMiddlewareKeepsLookup ==
    [][last.included /\ last'.op \in SubOps =>
          \A path \in SnapshotPaths :
              match(router', "GET", path) = match(router, "GET", path)]_vars

\* ------------------------------------------ properties of optional types

\* the parameters of fn declared as a union that includes None, with no
\* default
OptionalParams(fn) ==
    {i \in DOMAIN Signature(fn) :
        /\ Len(Signature(fn)[i].type) >= 2
        /\ DeclaredOptional(Signature(fn)[i].type)
        /\ ~Signature(fn)[i].has_default}

\* the handler of the one route of the application
RouteHandler == router.route_specs[1].handler

\* C40: a parameter declared as a union that includes None, of two members
\* or more, with no default, resolves to None when its value is missing,
\* whether it is an extractor parameter or an implicit dependency on a type
\* nothing provides: the route is registered, and the request gets None and
\* no missing-value error.
C40_OptionalUniform ==
    /\ OptionalParams(RouteHandler) # {} =>
          <<RouteNode(P_rx), "GET">> \in DOMAIN router.routed
    /\ \A r \in DOMAIN reqs :
          LET q == reqs[r]
              tr == q.trace
          IN \A i \in At(tr, "param") :
                LET p == Signature(tr[i].who)[tr[i].idx]
                IN /\ tr[i].idx \in OptionalParams(tr[i].who)
                   /\ (p.kind = "type" \/ Absent(q, p))
                   => /\ i < Len(tr)
                      /\ tr[i + 1].e = "value"
                      /\ tr[i + 1].obj = Yield("None")

\* the same for the unions of exactly two members
OptionalTwoMemberUniform ==
    /\ (\E i \in OptionalParams(RouteHandler) : Len(Signature(RouteHandler)[i].type) = 2) =>
          <<RouteNode(P_rx), "GET">> \in DOMAIN router.routed
    /\ \A r \in DOMAIN reqs :
          LET q == reqs[r]
              tr == q.trace
          IN \A i \in At(tr, "param") :
                LET p == Signature(tr[i].who)[tr[i].idx]
                IN /\ tr[i].idx \in OptionalParams(tr[i].who)
                   /\ Len(p.type) = 2
                   /\ (p.kind = "type" \/ Absent(q, p))
                   => /\ i < Len(tr)
                      /\ tr[i + 1].e = "value"
                      /\ tr[i + 1].obj = Yield("None")

====
